---------------------------- MODULE Spec2Model ----------------------------
(***************************************************************************)
(* A model of takram-math: the Random shared-instance accessor             *)
(* (random.h), the scalar promotion rules (promotion.h), 2-D segment       *)
(* intersection and side classification (line2.h) and the 2-D rectangle    *)
(* (rectangle2.h).                                                         *)
(***************************************************************************)
EXTENDS Integers, Sequences, FiniteSets, TLC

(***************************************************************************)
(* Bounds of the model.                                                    *)
(***************************************************************************)
NumThreads == 2
MaxCalls == 2
MaxLineCoord == 2
MaxRectCoord == 1
MaxRectSize == 1
MaxRange == 2
MaxCircleCoord == 1
MaxRadius == 5
MaxOrderCoord == 1
MaxArithCoord == 2
MaxNormCoord == 1
SqrtScale == 50
MaxConvCoord == 1
MaxScalarCoord == 2
MaxListValue == 2
MaxSizeCoord == 5
MaxPlaneCoord == 1
MaxProjectCoord == 2
MaxLerpCoord == 1
MaxLerpFactor == 2
MaxTriangleCoord == 4
MaxCanonCoord == 2
MaxCanonSize == 1
MaxEmptyCoord == 2

VARIABLES
  \* ---- Random<Engine> statics and the threads calling shared() ----
  shared_,          \* std::atomic<Random *> shared_ : nullptr or an instance id
  shared_mutex_,    \* std::mutex shared_mutex_ : TRUE when locked
  shared_deleted_,  \* bool shared_deleted_
  heap,             \* the Random instances that are allocated and not deleted
  constructed,      \* how many times "new Random" has run
  registered,       \* how many times std::atexit(&deleteShared) has run
  pending,          \* registered handlers that exit has not run yet
  exiting,          \* std::exit has been called
  exitPc,           \* position of the exiting thread inside deleteShared
  deletesDone,      \* completed deleteShared calls
  aborted,          \* an assertion failed: the process is gone
  pc,               \* pc[t] : position of thread t inside shared()
  shared,           \* shared[t] : the local variable "shared" of thread t
  ret,              \* ret[t] : the reference the last finished call returned
  retDeleted,       \* retDeleted[t] : that reference was already deleted then
  via,              \* via[t] : path the last finished call took
  calls,            \* calls[t] : calls started by thread t
  startedAfter,     \* startedAfter[t] : the call started after a deleteShared
  \* ---- Promote<T, U> ----
  pT, pU,           \* the two scalar kinds
  pType,            \* Promote<T, U>, or "none" before the instantiation
  pSwapped,         \* Promote<U, T>
  pSingle,          \* Promote<T>
  \* ---- Line<T, 2> ----
  lKind,            \* the scalar kind T of the lines
  lA, lB,           \* two lines (segments) of kind T
  lP,               \* a point of kind T
  lDone,            \* the call has been made
  lResult,          \* the pair A.intersect(B) returned
  lSide,            \* the Side A.side(p) returned
  \* ---- Rect<T, 2> ----
  rKind,            \* the scalar kind T of the rect
  rRect,            \* the rect
  rPrev,            \* the rect before the last call on it
  rOp,              \* the last call on it
  rArgs             \* the points the last call was asked to include

randomVars == <<shared_, shared_mutex_, shared_deleted_, heap, constructed,
                registered, pending, exiting, exitPc, deletesDone, aborted,
                pc, shared, ret, retDeleted, via, calls, startedAfter>>

promoteVars == <<pT, pU, pType, pSwapped, pSingle>>

lineVars == <<lKind, lA, lB, lP, lDone, lResult, lSide>>

rectVars == <<rKind, rRect, rPrev, rOp, rArgs>>

VARIABLES qKind, qRect, qOther, qPoint, qOp, qResult, qReverse

queryVars == <<qKind, qRect, qOther, qPoint, qOp, qResult, qReverse>>

VARIABLES cCircle, cOther, cPoint, cOp, cResult, cNegated

circleVars == <<cCircle, cOther, cPoint, cOp, cResult, cNegated>>

VARIABLES oDim, oA, oB, oDone, oLess, oGreater, oEqual

orderVars == <<oDim, oA, oB, oDone, oLess, oGreater, oEqual>>

VARIABLES aKind, aShape, aDim, aA, aB, aOp, aStatus, aType, aResult

arithVars == <<aKind, aShape, aDim, aA, aB, aOp, aStatus, aType, aResult>>

VARIABLES nKind, nDim, nV, nExp, nOp, nDivided, nResult, nMagnitude

normVars == <<nKind, nDim, nV, nExp, nOp, nDivided, nResult, nMagnitude>>

VARIABLES vT, vU, vShape, vValue, vDone, vConverted, vBack

convVars == <<vT, vU, vShape, vValue, vDone, vConverted, vBack>>

VARIABLES sKind, sShape, sDim, sV, sScalar, sOp, sSide, sResult

scalarVars == <<sKind, sShape, sDim, sV, sScalar, sOp, sSide, sResult>>

VARIABLES iShape, iDim, iObject, iOp, iList, iVectors, iFresh

listVars == <<iShape, iDim, iObject, iOp, iList, iVectors, iFresh>>

VARIABLES zKind, zW, zH, zExp, zOp, zResult

sizeVars == <<zKind, zW, zH, zExp, zOp, zResult>>

VARIABLES hKind, hNormal, hDistance, hOp, hStatus, hZeroGiven, hKept

planeVars == <<hKind, hNormal, hDistance, hOp, hStatus, hZeroGiven, hKept>>

VARIABLES jKind, jDim, jA, jB, jP, jDone, jResult

projectVars == <<jKind, jDim, jA, jB, jP, jDone, jResult>>

VARIABLES eKind, eFactorKind, eDim, eA, eB, eFactor, eDone, eResult

lerpVars == <<eKind, eFactorKind, eDim, eA, eB, eFactor, eDone, eResult>>

VARIABLES tKind, tA, tB, tC, tOp, tResult

triangleVars == <<tKind, tA, tB, tC, tOp, tResult>>

VARIABLES kKind, kRect, kPrev, kDone

canonVars == <<kKind, kRect, kPrev, kDone>>

VARIABLES mKind, mSize, mDone, mEmpty, mVectorEmpty

emptyVars == <<mKind, mSize, mDone, mEmpty, mVectorEmpty>>

vars == <<randomVars, promoteVars, lineVars, rectVars, queryVars, circleVars, orderVars, arithVars, normVars, convVars, scalarVars, listVars, sizeVars, planeVars, projectVars, lerpVars, triangleVars, canonVars, emptyVars>>

\* what an operation of one part leaves alone: the variables of the others
notRandom == <<promoteVars, lineVars, rectVars, queryVars, circleVars, orderVars, arithVars, normVars, convVars, scalarVars, listVars, sizeVars, planeVars, projectVars, lerpVars, triangleVars, canonVars, emptyVars>>
notPromote == <<randomVars, lineVars, rectVars, queryVars, circleVars, orderVars, arithVars, normVars, convVars, scalarVars, listVars, sizeVars, planeVars, projectVars, lerpVars, triangleVars, canonVars, emptyVars>>
notLine == <<randomVars, promoteVars, rectVars, queryVars, circleVars, orderVars, arithVars, normVars, convVars, scalarVars, listVars, sizeVars, planeVars, projectVars, lerpVars, triangleVars, canonVars, emptyVars>>
notRect == <<randomVars, promoteVars, lineVars, queryVars, circleVars, orderVars, arithVars, normVars, convVars, scalarVars, listVars, sizeVars, planeVars, projectVars, lerpVars, triangleVars, canonVars, emptyVars>>
notQuery == <<randomVars, promoteVars, lineVars, rectVars, circleVars, orderVars, arithVars, normVars, convVars, scalarVars, listVars, sizeVars, planeVars, projectVars, lerpVars, triangleVars, canonVars, emptyVars>>
notCircle == <<randomVars, promoteVars, lineVars, rectVars, queryVars, orderVars, arithVars, normVars, convVars, scalarVars, listVars, sizeVars, planeVars, projectVars, lerpVars, triangleVars, canonVars, emptyVars>>
notOrder == <<randomVars, promoteVars, lineVars, rectVars, queryVars, circleVars, arithVars, normVars, convVars, scalarVars, listVars, sizeVars, planeVars, projectVars, lerpVars, triangleVars, canonVars, emptyVars>>
notArith == <<randomVars, promoteVars, lineVars, rectVars, queryVars, circleVars, orderVars, normVars, convVars, scalarVars, listVars, sizeVars, planeVars, projectVars, lerpVars, triangleVars, canonVars, emptyVars>>
notNorm == <<randomVars, promoteVars, lineVars, rectVars, queryVars, circleVars, orderVars, arithVars, convVars, scalarVars, listVars, sizeVars, planeVars, projectVars, lerpVars, triangleVars, canonVars, emptyVars>>
notConv == <<randomVars, promoteVars, lineVars, rectVars, queryVars, circleVars, orderVars, arithVars, normVars, scalarVars, listVars, sizeVars, planeVars, projectVars, lerpVars, triangleVars, canonVars, emptyVars>>
notScalar == <<randomVars, promoteVars, lineVars, rectVars, queryVars, circleVars, orderVars, arithVars, normVars, convVars, listVars, sizeVars, planeVars, projectVars, lerpVars, triangleVars, canonVars, emptyVars>>
notList == <<randomVars, promoteVars, lineVars, rectVars, queryVars, circleVars, orderVars, arithVars, normVars, convVars, scalarVars, sizeVars, planeVars, projectVars, lerpVars, triangleVars, canonVars, emptyVars>>
notSize == <<randomVars, promoteVars, lineVars, rectVars, queryVars, circleVars, orderVars, arithVars, normVars, convVars, scalarVars, listVars, planeVars, projectVars, lerpVars, triangleVars, canonVars, emptyVars>>
notPlane == <<randomVars, promoteVars, lineVars, rectVars, queryVars, circleVars, orderVars, arithVars, normVars, convVars, scalarVars, listVars, sizeVars, projectVars, lerpVars, triangleVars, canonVars, emptyVars>>
notProject == <<randomVars, promoteVars, lineVars, rectVars, queryVars, circleVars, orderVars, arithVars, normVars, convVars, scalarVars, listVars, sizeVars, planeVars, lerpVars, triangleVars, canonVars, emptyVars>>
notLerp == <<randomVars, promoteVars, lineVars, rectVars, queryVars, circleVars, orderVars, arithVars, normVars, convVars, scalarVars, listVars, sizeVars, planeVars, projectVars, triangleVars, canonVars, emptyVars>>
notTriangle == <<randomVars, promoteVars, lineVars, rectVars, queryVars, circleVars, orderVars, arithVars, normVars, convVars, scalarVars, listVars, sizeVars, planeVars, projectVars, lerpVars, canonVars, emptyVars>>
notCanon == <<randomVars, promoteVars, lineVars, rectVars, queryVars, circleVars, orderVars, arithVars, normVars, convVars, scalarVars, listVars, sizeVars, planeVars, projectVars, lerpVars, triangleVars, emptyVars>>
notEmpty == <<randomVars, promoteVars, lineVars, rectVars, queryVars, circleVars, orderVars, arithVars, normVars, convVars, scalarVars, listVars, sizeVars, planeVars, projectVars, lerpVars, triangleVars, canonVars>>

(***************************************************************************)
(* The parts of the library are independent: a specification of one part   *)
(* leaves the variables of the others at rest.                             *)
(***************************************************************************)
PromoteIdle ==
  /\ pT = "int" /\ pU = "int"
  /\ pType = "none" /\ pSwapped = "none" /\ pSingle = "none"

LineIdle ==
  /\ lKind = "int"
  /\ lA = [a |-> [x |-> 0, y |-> 0], b |-> [x |-> 0, y |-> 0]]
  /\ lB = [a |-> [x |-> 0, y |-> 0], b |-> [x |-> 0, y |-> 0]]
  /\ lP = [x |-> 0, y |-> 0]
  /\ lDone = FALSE
  /\ lResult = [first |-> FALSE, second |-> [x |-> <<0, 1>>, y |-> <<0, 1>>]]
  /\ lSide = "COINCIDENT"

RectIdle ==
  /\ rKind = "int"
  /\ rRect = [x |-> 0, y |-> 0, width |-> 0, height |-> 0]
  /\ rPrev = [x |-> 0, y |-> 0, width |-> 0, height |-> 0]
  /\ rOp = "none"
  /\ rArgs = {}

QueryIdle ==
  /\ qKind = "int"
  /\ qRect = [x |-> 0, y |-> 0, width |-> 0, height |-> 0]
  /\ qOther = [x |-> 0, y |-> 0, width |-> 0, height |-> 0]
  /\ qPoint = [x |-> 0, y |-> 0]
  /\ qOp = "none"
  /\ qResult = FALSE
  /\ qReverse = FALSE

CircleIdle ==
  /\ cCircle = [center |-> [x |-> 0, y |-> 0], radius |-> 0]
  /\ cOther = [center |-> [x |-> 0, y |-> 0], radius |-> 0]
  /\ cPoint = [x |-> 0, y |-> 0]
  /\ cOp = "none"
  /\ cResult = FALSE
  /\ cNegated = FALSE

OrderIdle ==
  /\ oDim = 2
  /\ oA = [x |-> 0, y |-> 0, z |-> 0, w |-> 0]
  /\ oB = [x |-> 0, y |-> 0, z |-> 0, w |-> 0]
  /\ oDone = FALSE
  /\ oLess = FALSE
  /\ oGreater = FALSE
  /\ oEqual = FALSE

ArithIdle ==
  /\ aKind = "int"
  /\ aShape = "Vec"
  /\ aDim = 2
  /\ aA = [x |-> 0, y |-> 0, z |-> 0, w |-> 0]
  /\ aB = [x |-> 0, y |-> 0, z |-> 0, w |-> 0]
  /\ aOp = "none"
  /\ aStatus = "none"
  /\ aType = "none"
  /\ aResult = [x |-> <<0, 1>>, y |-> <<0, 1>>, z |-> <<0, 1>>, w |-> <<0, 1>>]

NormIdle ==
  /\ nKind = "double"
  /\ nDim = 2
  /\ nV = [x |-> 0, y |-> 0, z |-> 0, w |-> 0]
  /\ nExp = 0
  /\ nOp = "none"
  /\ nDivided = FALSE
  /\ nResult = [x |-> [m |-> <<0, 1>>, e |-> 0], y |-> [m |-> <<0, 1>>, e |-> 0],
                z |-> [m |-> <<0, 1>>, e |-> 0], w |-> [m |-> <<0, 1>>, e |-> 0]]
  /\ nMagnitude = [m |-> <<0, 1>>, e |-> 0]

ConvIdle ==
  /\ vT = "int"
  /\ vU = "int"
  /\ vShape = "Vec2"
  /\ vValue = <<>>
  /\ vDone = FALSE
  /\ vConverted = <<>>
  /\ vBack = <<>>

ScalarIdle ==
  /\ sKind = "int"
  /\ sShape = "Vec"
  /\ sDim = 2
  /\ sV = [x |-> 0, y |-> 0, z |-> 0, w |-> 0]
  /\ sScalar = 0
  /\ sOp = "none"
  /\ sSide = "none"
  /\ sResult = [x |-> <<0, 1>>, y |-> <<0, 1>>, z |-> <<0, 1>>, w |-> <<0, 1>>]

ListIdle ==
  /\ iShape = "Vec"
  /\ iDim = 2
  /\ iObject = <<0, 0>>
  /\ iOp = "none"
  /\ iList = <<>>
  /\ iVectors = <<>>
  /\ iFresh = <<0, 0>>

SizeIdle ==
  /\ zKind = "int"
  /\ zW = 0
  /\ zH = 0
  /\ zExp = 0
  /\ zOp = "none"
  /\ zResult = [m |-> <<0, 1>>, e |-> 0]

PlaneIdle ==
  /\ hKind = "double"
  /\ hNormal = [f \in {"x", "y", "z", "w"} |-> [m |-> <<0, 1>>, e |-> 0]]
  /\ hDistance = [m |-> <<0, 1>>, e |-> 0]
  /\ hOp = "none"
  /\ hStatus = "none"
  /\ hZeroGiven = FALSE
  /\ hKept = TRUE

ProjectIdle ==
  /\ jKind = "int"
  /\ jDim = 2
  /\ jA = [x |-> 0, y |-> 0, z |-> 0]
  /\ jB = [x |-> 0, y |-> 0, z |-> 0]
  /\ jP = [x |-> 0, y |-> 0, z |-> 0]
  /\ jDone = FALSE
  /\ jResult = [x |-> <<0, 1>>, y |-> <<0, 1>>, z |-> <<0, 1>>]

LerpIdle ==
  /\ eKind = "int"
  /\ eFactorKind = "int"
  /\ eDim = 2
  /\ eA = [x |-> 0, y |-> 0, z |-> 0, w |-> 0]
  /\ eB = [x |-> 0, y |-> 0, z |-> 0, w |-> 0]
  /\ eFactor = <<0, 1>>
  /\ eDone = FALSE
  /\ eResult = [f \in {"x", "y", "z", "w"} |-> [hi |-> <<0, 1>>, lo |-> <<0, 1>>]]

TriangleIdle ==
  /\ tKind = "int"
  /\ tA = [x |-> 0, y |-> 0, z |-> 0, w |-> 0]
  /\ tB = [x |-> 0, y |-> 0, z |-> 0, w |-> 0]
  /\ tC = [x |-> 0, y |-> 0, z |-> 0, w |-> 0]
  /\ tOp = "none"
  /\ tResult = [m |-> <<0, 1>>, e |-> 0]

CanonIdle ==
  /\ kKind = "int"
  /\ kRect = [x |-> 0, y |-> 0, width |-> 0, height |-> 0]
  /\ kPrev = [x |-> 0, y |-> 0, width |-> 0, height |-> 0]
  /\ kDone = FALSE

EmptyIdle ==
  /\ mKind = "int"
  /\ mSize = [width |-> 0, height |-> 0, depth |-> 0]
  /\ mDone = FALSE
  /\ mEmpty = FALSE
  /\ mVectorEmpty = FALSE

Threads == 1..NumThreads

\* random.h:136 "if (!shared)": the null pointer
nullptr == 0

(***************************************************************************)
(* Random<Engine>::shared(), random.h:134-148, one action per statement.   *)
(***************************************************************************)
RandomInit ==
  /\ shared_ = nullptr
  /\ shared_mutex_ = FALSE
  /\ shared_deleted_ = FALSE
  /\ heap = {}
  /\ constructed = 0
  /\ registered = 0
  /\ pending = 0
  /\ exiting = FALSE
  /\ exitPc = "idle"
  /\ deletesDone = 0
  /\ aborted = FALSE
  /\ pc = [t \in Threads |-> "idle"]
  /\ shared = [t \in Threads |-> nullptr]
  /\ ret = [t \in Threads |-> nullptr]
  /\ retDeleted = [t \in Threads |-> FALSE]
  /\ via = [t \in Threads |-> "none"]
  /\ calls = [t \in Threads |-> 0]
  /\ startedAfter = [t \in Threads |-> FALSE]

\* a thread enters shared()
Call(t) ==
  /\ ~aborted
  /\ pc[t] = "idle"
  /\ calls[t] < MaxCalls
  /\ pc' = [pc EXCEPT ![t] = "load1"]
  /\ calls' = [calls EXCEPT ![t] = @ + 1]
  /\ startedAfter' = [startedAfter EXCEPT ![t] = (deletesDone > 0)]
  /\ via' = [via EXCEPT ![t] = "none"]
  /\ UNCHANGED <<notRandom,
                 shared_, shared_mutex_, shared_deleted_, heap, constructed,
                 registered, pending, exiting, exitPc, deletesDone, aborted,
                 shared, ret, retDeleted>>

\* line 136-137: auto shared = shared_.load(); if (!shared) {
Load1(t) ==
  /\ ~aborted
  /\ pc[t] = "load1"
  /\ shared' = [shared EXCEPT ![t] = shared_]
  /\ pc' = [pc EXCEPT ![t] = IF shared_ = nullptr THEN "lock" ELSE "return"]
  /\ via' = [via EXCEPT ![t] = IF shared_ = nullptr THEN "none" ELSE "fast"]
  /\ UNCHANGED <<notRandom,
                 shared_, shared_mutex_, shared_deleted_, heap, constructed,
                 registered, pending, exiting, exitPc, deletesDone, aborted,
                 ret, retDeleted, calls, startedAfter>>

\* line 138: std::lock_guard<std::mutex> lock(shared_mutex_);
Lock(t) ==
  /\ ~aborted
  /\ pc[t] = "lock"
  /\ ~shared_mutex_
  /\ shared_mutex_' = TRUE
  /\ pc' = [pc EXCEPT ![t] = "load2"]
  /\ UNCHANGED <<notRandom,
                 shared_, shared_deleted_, heap, constructed, registered,
                 pending, exiting, exitPc, deletesDone, aborted, shared, ret,
                 retDeleted, via, calls, startedAfter>>

\* a double-checked lock without its second check
Load2NoSecondCheck(t) ==
  /\ ~aborted
  /\ pc[t] = "load2"
  /\ shared' = [shared EXCEPT ![t] = shared_]
  /\ pc' = [pc EXCEPT ![t] = "assert"]
  /\ via' = [via EXCEPT ![t] = "none"]
  /\ UNCHANGED <<notRandom,
                 shared_, shared_mutex_, shared_deleted_, heap, constructed,
                 registered, pending, exiting, exitPc, deletesDone, aborted,
                 ret, retDeleted, calls, startedAfter>>

\* line 139-140: shared = shared_.load(); if (!shared) {
Load2(t) ==
  /\ ~aborted
  /\ pc[t] = "load2"
  /\ shared' = [shared EXCEPT ![t] = shared_]
  /\ pc' = [pc EXCEPT ![t] = IF shared_ = nullptr THEN "assert" ELSE "unlock"]
  /\ via' = [via EXCEPT ![t] = IF shared_ = nullptr THEN "none" ELSE "second"]
  /\ UNCHANGED <<notRandom,
                 shared_, shared_mutex_, shared_deleted_, heap, constructed,
                 registered, pending, exiting, exitPc, deletesDone, aborted,
                 ret, retDeleted, calls, startedAfter>>

\* the assertion compiled out
AssertNotDeletedSkipped(t) ==
  /\ ~aborted
  /\ pc[t] = "assert"
  /\ pc' = [pc EXCEPT ![t] = "new"]
  /\ UNCHANGED <<notRandom,
                 shared_, shared_mutex_, shared_deleted_, heap, constructed,
                 registered, pending, exiting, exitPc, deletesDone, aborted,
                 shared, ret, retDeleted, via, calls, startedAfter>>

\* line 141: assert(!shared_deleted_);  a failed assertion aborts the process
AssertNotDeleted(t) ==
  /\ ~aborted
  /\ pc[t] = "assert"
  /\ IF shared_deleted_
       THEN /\ aborted' = TRUE
            /\ pc' = [pc EXCEPT ![t] = "assert_failed"]
       ELSE /\ aborted' = aborted
            /\ pc' = [pc EXCEPT ![t] = "new"]
  /\ UNCHANGED <<notRandom,
                 shared_, shared_mutex_, shared_deleted_, heap, constructed,
                 registered, pending, exiting, exitPc, deletesDone,
                 shared, ret, retDeleted, via, calls, startedAfter>>

\* line 142: shared = new Random;
New(t) ==
  /\ ~aborted
  /\ pc[t] = "new"
  /\ constructed' = constructed + 1
  /\ heap' = heap \cup {constructed + 1}
  /\ shared' = [shared EXCEPT ![t] = constructed + 1]
  /\ via' = [via EXCEPT ![t] = "created"]
  /\ pc' = [pc EXCEPT ![t] = "store"]
  /\ UNCHANGED <<notRandom,
                 shared_, shared_mutex_, shared_deleted_, registered, pending,
                 exiting, exitPc, deletesDone, aborted, ret, retDeleted,
                 calls, startedAfter>>

\* line 143: shared_.store(shared, std::memory_order_release);
Store(t) ==
  /\ ~aborted
  /\ pc[t] = "store"
  /\ shared_' = shared[t]
  /\ pc' = [pc EXCEPT ![t] = "atexit"]
  /\ UNCHANGED <<notRandom,
                 shared_mutex_, shared_deleted_, heap, constructed, registered,
                 pending, exiting, exitPc, deletesDone, aborted, shared, ret,
                 retDeleted, via, calls, startedAfter>>

\* line 144: std::atexit(&deleteShared);
Atexit(t) ==
  /\ ~aborted
  /\ pc[t] = "atexit"
  /\ registered' = registered + 1
  /\ pending' = pending + 1
  /\ pc' = [pc EXCEPT ![t] = "unlock"]
  /\ UNCHANGED <<notRandom,
                 shared_, shared_mutex_, shared_deleted_, heap, constructed,
                 exiting, exitPc, deletesDone, aborted, shared, ret,
                 retDeleted, via, calls, startedAfter>>

\* line 146: the lock_guard leaves scope
Unlock(t) ==
  /\ ~aborted
  /\ pc[t] = "unlock"
  /\ shared_mutex_' = FALSE
  /\ pc' = [pc EXCEPT ![t] = "return"]
  /\ UNCHANGED <<notRandom,
                 shared_, shared_deleted_, heap, constructed, registered,
                 pending, exiting, exitPc, deletesDone, aborted, shared, ret,
                 retDeleted, via, calls, startedAfter>>

\* line 147: return *shared;
Return(t) ==
  /\ ~aborted
  /\ pc[t] = "return"
  /\ ret' = [ret EXCEPT ![t] = shared[t]]
  /\ retDeleted' = [retDeleted EXCEPT ![t] = (shared[t] \notin heap)]
  /\ pc' = [pc EXCEPT ![t] = "idle"]
  /\ UNCHANGED <<notRandom,
                 shared_, shared_mutex_, shared_deleted_, heap, constructed,
                 registered, pending, exiting, exitPc, deletesDone, aborted,
                 shared, via, calls, startedAfter>>

(***************************************************************************)
(* Process exit and Random<Engine>::deleteShared(), random.h:150-155.      *)
(* std::exit runs every handler std::atexit registered; the other threads  *)
(* keep running meanwhile.                                                 *)
(***************************************************************************)
Exit ==
  /\ ~aborted
  /\ ~exiting
  /\ exiting' = TRUE
  /\ UNCHANGED <<notRandom,
                 shared_, shared_mutex_, shared_deleted_, heap, constructed,
                 registered, pending, exitPc, deletesDone, aborted, pc,
                 shared, ret, retDeleted, via, calls, startedAfter>>

\* line 152: std::lock_guard<std::mutex> lock(shared_mutex_);
DeleteLock ==
  /\ ~aborted
  /\ exiting
  /\ exitPc = "idle"
  /\ pending > 0
  /\ ~shared_mutex_
  /\ shared_mutex_' = TRUE
  /\ pending' = pending - 1
  /\ exitPc' = "exchange"
  /\ UNCHANGED <<notRandom,
                 shared_, shared_deleted_, heap, constructed, registered,
                 exiting, deletesDone, aborted, pc, shared, ret, retDeleted,
                 via, calls, startedAfter>>

\* line 153: delete shared_.exchange(nullptr);
DeleteExchange ==
  /\ ~aborted
  /\ exitPc = "exchange"
  /\ shared_' = nullptr
  /\ heap' = heap \ {shared_}
  /\ exitPc' = "flag"
  /\ UNCHANGED <<notRandom,
                 shared_mutex_, shared_deleted_, constructed, registered,
                 pending, exiting, deletesDone, aborted, pc, shared, ret,
                 retDeleted, via, calls, startedAfter>>

\* line 154: shared_deleted_ = true;
DeleteFlag ==
  /\ ~aborted
  /\ exitPc = "flag"
  /\ shared_deleted_' = TRUE
  /\ exitPc' = "unlock"
  /\ UNCHANGED <<notRandom,
                 shared_, shared_mutex_, heap, constructed, registered,
                 pending, exiting, deletesDone, aborted, pc, shared, ret,
                 retDeleted, via, calls, startedAfter>>

\* line 155: the lock_guard leaves scope and deleteShared returns
DeleteUnlock ==
  /\ ~aborted
  /\ exitPc = "unlock"
  /\ shared_mutex_' = FALSE
  /\ deletesDone' = deletesDone + 1
  /\ exitPc' = "idle"
  /\ UNCHANGED <<notRandom,
                 shared_, shared_deleted_, heap, constructed, registered,
                 pending, exiting, aborted, pc, shared, ret, retDeleted,
                 via, calls, startedAfter>>

RandomNext ==
  \/ \E t \in Threads : Call(t)
  \/ \E t \in Threads : Load1(t)
  \/ \E t \in Threads : Lock(t)
  \/ \E t \in Threads : Load2(t)
  \/ \E t \in Threads : AssertNotDeleted(t)
  \/ \E t \in Threads : New(t)
  \/ \E t \in Threads : Store(t)
  \/ \E t \in Threads : Atexit(t)
  \/ \E t \in Threads : Unlock(t)
  \/ \E t \in Threads : Return(t)
  \/ Exit
  \/ DeleteLock
  \/ DeleteExchange
  \/ DeleteFlag
  \/ DeleteUnlock

InitRandom == RandomInit /\ PromoteIdle /\ LineIdle /\ RectIdle /\ QueryIdle /\ CircleIdle /\ OrderIdle /\ ArithIdle /\ NormIdle /\ ConvIdle /\ ScalarIdle /\ ListIdle /\ SizeIdle /\ PlaneIdle /\ ProjectIdle /\ LerpIdle /\ TriangleIdle /\ CanonIdle /\ EmptyIdle

SpecRandom == InitRandom /\ [][RandomNext]_vars

(***************************************************************************)
(* C1: under any interleaving of shared() calls made before the exit       *)
(* cleanup runs, at most one Random is ever constructed, and every call    *)
(* that has returned got a reference to that one instance, the one         *)
(* shared_ holds.                                                          *)
(***************************************************************************)
C1_OneSharedInstance ==
  (deletesDone = 0 /\ exitPc = "idle") =>
     /\ constructed <= 1
     /\ Cardinality(heap) = constructed
     /\ \A t \in Threads :
          ret[t] # nullptr => (constructed = 1 /\ ret[t] = shared_
                               /\ ret[t] \in heap)

\* two threads raced through the null first check; one created the instance,
\* the other found it at the second check, and both have returned
C1_Witness ==
  \E t \in Threads, u \in Threads :
     /\ t # u
     /\ deletesDone = 0 /\ exitPc = "idle"
     /\ pc[t] = "idle" /\ via[t] = "created" /\ ret[t] # nullptr
     /\ pc[u] = "idle" /\ via[u] = "second" /\ ret[u] = ret[t]

(***************************************************************************)
(* C2: a shared() call that starts after deleteShared() has completed      *)
(* never gets past assert(!shared_deleted_): it constructs nothing and     *)
(* registers nothing, so shared_ stays null, one instance was ever         *)
(* constructed and one handler ever registered.                            *)
(***************************************************************************)
C2_NoReplacementAfterDelete ==
  /\ \A t \in Threads :
       startedAfter[t] =>
          pc[t] \in {"load1", "lock", "load2", "assert", "assert_failed"}
  /\ deletesDone > 0 =>
       /\ shared_ = nullptr
       /\ heap = {}
       /\ constructed = 1
       /\ registered = 1
       /\ pending = 0

\* a call that started after the cleanup has failed the assertion
C2_Witness ==
  \E t \in Threads :
     /\ startedAfter[t]
     /\ pc[t] = "assert_failed"
     /\ aborted
     /\ shared_ = nullptr

(***************************************************************************)
(* C3: shared() never returns a reference to an instance that              *)
(* deleteShared() has already deleted.                                     *)
(***************************************************************************)
C3_NoUseAfterTeardown ==
  \A t \in Threads : ~retDeleted[t]


(***************************************************************************)
(* Promotion rules, promotion.h.  A scalar kind is named by its C++ type.  *)
(***************************************************************************)
IntegralKinds == {"bool", "char", "signed char", "unsigned char", "short",
                  "unsigned short", "int", "unsigned int", "long",
                  "unsigned long", "long long", "unsigned long long"}
FloatingKinds == {"float", "double", "long double"}
ScalarKinds == IntegralKinds \cup FloatingKinds

\* std::is_integral<T>::value
is_integral(T) == T \in IntegralKinds

\* std::is_floating_point<T>::value
is_floating_point(T) == T \in FloatingKinds

\* std::is_convertible<From, To>::value: every arithmetic type converts
\* implicitly to every other
is_convertible(From, To) == From \in ScalarKinds /\ To \in ScalarKinds

\* an integral kind keeping its own type
Promotion1PrimaryKeepsIntegral(T) == T

\* promotion.h:36-42, the primary template
Promotion1Primary(T) == IF is_integral(T) THEN "double" ELSE T

\* promotion.h:44-51, the explicit specialisations, else the primary template
Promotion1(T) ==
  CASE T = "float" -> "float"
    [] T = "double" -> "double"
    [] T = "long double" -> "long double"
    [] T = "int" -> "double"
    [] OTHER -> Promotion1Primary(T)

\* promotion.h:55-81, the primary template
Promotion2Primary(T, U) ==
  LET PromotedT == Promotion1(T)
      PromotedU == Promotion1(U)
  IN  IF is_floating_point(PromotedT) /\ is_floating_point(PromotedU)
        THEN IF PromotedT = "long double" \/ PromotedU = "long double"
               THEN "long double"
               ELSE IF PromotedT = "double" \/ PromotedU = "double"
                      THEN "double"
                      ELSE "float"
        ELSE IF ~is_floating_point(PromotedU)
                  /\ is_convertible(PromotedT, PromotedU)
               THEN PromotedU
               ELSE PromotedT

\* the specialisations with <int, float> taking the floating operand's type
Promotion2IntFloatIsFloat(T, U) ==
  CASE T = "float" /\ U = "float" -> "float"
    [] T = "double" /\ U = "double" -> "double"
    [] T = "long double" /\ U = "long double" -> "long double"
    [] T = "int" /\ U = "int" -> "double"
    [] T = "int" /\ U = "float" -> "float"
    [] T = "float" /\ U = "int" -> "double"
    [] T = "int" /\ U = "double" -> "double"
    [] T = "double" /\ U = "int" -> "double"
    [] T = "int" /\ U = "long double" -> "long double"
    [] T = "long double" /\ U = "int" -> "long double"
    [] T = "float" /\ U = "double" -> "double"
    [] T = "double" /\ U = "float" -> "double"
    [] T = "float" /\ U = "long double" -> "long double"
    [] T = "long double" /\ U = "float" -> "long double"
    [] T = "double" /\ U = "long double" -> "long double"
    [] T = "long double" /\ U = "double" -> "long double"
    [] OTHER -> Promotion2Primary(T, U)

\* promotion.h:83-114, the explicit specialisations, else the primary template
Promotion2(T, U) ==
  CASE T = "float" /\ U = "float" -> "float"
    [] T = "double" /\ U = "double" -> "double"
    [] T = "long double" /\ U = "long double" -> "long double"
    [] T = "int" /\ U = "int" -> "double"
    [] T = "int" /\ U = "float" -> "double"
    [] T = "float" /\ U = "int" -> "double"
    [] T = "int" /\ U = "double" -> "double"
    [] T = "double" /\ U = "int" -> "double"
    [] T = "int" /\ U = "long double" -> "long double"
    [] T = "long double" /\ U = "int" -> "long double"
    [] T = "float" /\ U = "double" -> "double"
    [] T = "double" /\ U = "float" -> "double"
    [] T = "float" /\ U = "long double" -> "long double"
    [] T = "long double" /\ U = "float" -> "long double"
    [] T = "double" /\ U = "long double" -> "long double"
    [] T = "long double" /\ U = "double" -> "long double"
    [] OTHER -> Promotion2Primary(T, U)

\* promotion.h:118-119: template <class T, class U = T> using Promote
Promote(T, U) == Promotion2(T, U)
Promote1(T) == Promotion2(T, T)

PromoteInit ==
  /\ pT \in ScalarKinds
  /\ pU \in ScalarKinds
  /\ pType = "none"
  /\ pSwapped = "none"
  /\ pSingle = "none"

\* the compiler instantiates Promote<T, U>, Promote<U, T> and Promote<T>
Instantiate ==
  /\ pType = "none"
  /\ pType' = Promote(pT, pU)
  /\ pSwapped' = Promote(pU, pT)
  /\ pSingle' = Promote1(pT)
  /\ UNCHANGED <<notPromote, pT, pU>>

PromoteNext == Instantiate

InitPromote == PromoteInit /\ RandomInit /\ LineIdle /\ RectIdle /\ QueryIdle /\ CircleIdle /\ OrderIdle /\ ArithIdle /\ NormIdle /\ ConvIdle /\ ScalarIdle /\ ListIdle /\ SizeIdle /\ PlaneIdle /\ ProjectIdle /\ LerpIdle /\ TriangleIdle /\ CanonIdle /\ EmptyIdle

SpecPromote == InitPromote /\ [][PromoteNext]_vars

(***************************************************************************)
(* C4: for all scalar kinds T and U, Promote<T, U> and Promote<U, T> are   *)
(* the same type, for the specialised pairs and for the pairs the primary  *)
(* template resolves.                                                      *)
(***************************************************************************)
C4_PromoteCommutative ==
  pType # "none" => pType = pSwapped

\* a pair resolved by the primary template in one order of a float and a
\* narrow integral kind, and a pair of the explicit specialisations
C4_Witness ==
  /\ pType # "none"
  /\ pT = "signed char" /\ pU = "float"
  /\ pType = "double" /\ pSwapped = "double"

(***************************************************************************)
(* C5: Promote<T, U> is long double if either kind is long double,         *)
(* otherwise double if either kind is double or integral, otherwise float; *)
(* and Promote<T> is that rule applied to T and T.                         *)
(***************************************************************************)
ReferencePromotion(T, U) ==
  IF T = "long double" \/ U = "long double"
    THEN "long double"
    ELSE IF T = "double" \/ U = "double" \/ T \in IntegralKinds
              \/ U \in IntegralKinds
           THEN "double"
           ELSE "float"

C5_PromoteFollowsRule ==
  pType # "none" =>
     /\ pType = ReferencePromotion(pT, pU)
     /\ pSingle = ReferencePromotion(pT, pT)

\* two integral kinds of different width promote to double
C5_Witness ==
  /\ pType = "double"
  /\ pT = "unsigned char" /\ pU = "long long"
  /\ pSingle = "double"


(***************************************************************************)
(* Line<T, 2>, line2.h.  The scalar kind T of a line is "int" or "double"; *)
(* coordinates are small integers, which both kinds hold exactly.  A value *)
(* of the promoted type Promote<T> (double) is the exact rational <<n, d>> *)
(* with d > 0, in lowest terms, that the double approximates.              *)
(***************************************************************************)
LineKinds == {"int", "double"}
LineCoords == 0..MaxLineCoord
LinePoints == [x : LineCoords, y : LineCoords]
Lines == [a : LinePoints, b : LinePoints]

Abs(n) == IF n < 0 THEN -n ELSE n

RECURSIVE GCD(_, _)
GCD(m, n) == IF n = 0 THEN m ELSE GCD(n, m % n)

\* the rational n / d in lowest terms with a positive denominator
Rational(n, d) ==
  LET g == GCD(Abs(n), Abs(d))
      sgn == IF d < 0 THEN -1 ELSE 1
  IN  <<(sgn * n) \div g, (sgn * d) \div g>>

\* static_cast<Promote<T>>(n)
FromInt(n) == <<n, 1>>

RAdd(p, q) == Rational(p[1] * q[2] + q[1] * p[2], p[2] * q[2])
RMul(p, q) == Rational(p[1] * q[1], p[2] * q[2])
RLeq(p, q) == p[1] * q[2] <= q[1] * p[2]

\* C++ integer division: the quotient truncated toward zero
TruncDiv(n, d) ==
  IF (n < 0) = (d < 0) THEN Abs(n) \div Abs(d) ELSE -(Abs(n) \div Abs(d))

\* n / d in scalar kind T (line2.h:315-318): operands of type int divide as
\* integers, operands of type double as reals
Quotient(T, n, d) ==
  IF T = "int" THEN FromInt(TruncDiv(n, d)) ELSE Rational(n, d)

\* Vec2<Promote<T>>(), the zero vector
ZeroVec2 == [x |-> FromInt(0), y |-> FromInt(0)]

\* line2.h:312-313
Denominator(l, other) ==
  (other.b.y - other.a.y) * (l.b.x - l.a.x)
    - (other.b.x - other.a.x) * (l.b.y - l.a.y)

\* line2.h:315-316, the numerator of s
NumeratorS(l, other) ==
  (other.b.x - other.a.x) * (l.a.y - other.a.y)
    - (other.b.y - other.a.y) * (l.a.x - other.a.x)

\* line2.h:317-318, the numerator of t
NumeratorT(l, other) ==
  (l.b.x - l.a.x) * (l.a.y - other.a.y)
    - (l.b.y - l.a.y) * (l.a.x - other.a.x)

\* Line<T, 2>::intersect, line2.h:308-324
intersect(T, l, other) ==
  LET denominator == Denominator(l, other)
      s == Quotient(T, NumeratorS(l, other), denominator)
      t == Quotient(T, NumeratorT(l, other), denominator)
  IN  IF /\ denominator # 0
         /\ RLeq(FromInt(0), s) /\ RLeq(s, FromInt(1))
         /\ RLeq(FromInt(0), t) /\ RLeq(t, FromInt(1))
        THEN [first |-> TRUE,
              second |-> [x |-> RAdd(FromInt(l.a.x),
                                     RMul(FromInt(l.b.x - l.a.x), s)),
                          y |-> RAdd(FromInt(l.a.y),
                                     RMul(FromInt(l.b.y - l.a.y), s))]]
        ELSE [first |-> FALSE, second |-> ZeroVec2]

\* Line<T, 2>::side, line2.h:345-350, with the Side enumerators of side.h:37-41
side(l, point) ==
  LET d == (l.b.x - l.a.x) * (point.y - l.a.y)
             - (l.b.y - l.a.y) * (point.x - l.a.x)
  IN  IF d = 0
        THEN (IF d < 0 THEN "LEFT" ELSE "RIGHT")
        ELSE "COINCIDENT"

IntersectInit ==
  /\ lKind \in LineKinds
  /\ lA \in Lines
  /\ lB \in Lines
  /\ lP = [x |-> 0, y |-> 0]
  /\ lDone = FALSE
  /\ lResult = [first |-> FALSE, second |-> ZeroVec2]
  /\ lSide = "COINCIDENT"

\* A.intersect(B)
Intersect ==
  /\ ~lDone
  /\ lDone' = TRUE
  /\ lResult' = intersect(lKind, lA, lB)
  /\ UNCHANGED <<notLine, lKind, lA, lB, lP, lSide>>

IntersectNext == Intersect

InitIntersect == IntersectInit /\ RandomInit /\ PromoteIdle /\ RectIdle /\ QueryIdle /\ CircleIdle /\ OrderIdle /\ ArithIdle /\ NormIdle /\ ConvIdle /\ ScalarIdle /\ ListIdle /\ SizeIdle /\ PlaneIdle /\ ProjectIdle /\ LerpIdle /\ TriangleIdle /\ CanonIdle /\ EmptyIdle

SpecIntersect == InitIntersect /\ [][IntersectNext]_vars

SideInit ==
  /\ lKind \in LineKinds
  /\ lA \in Lines
  /\ lB = [a |-> [x |-> 0, y |-> 0], b |-> [x |-> 0, y |-> 0]]
  /\ lP \in LinePoints
  /\ lDone = FALSE
  /\ lResult = [first |-> FALSE, second |-> ZeroVec2]
  /\ lSide = "COINCIDENT"

\* A.side(p)
SideOfPoint ==
  /\ ~lDone
  /\ lDone' = TRUE
  /\ lSide' = side(lA, lP)
  /\ UNCHANGED <<notLine, lKind, lA, lB, lP, lResult>>

SideNext == SideOfPoint

InitSide == SideInit /\ RandomInit /\ PromoteIdle /\ RectIdle /\ QueryIdle /\ CircleIdle /\ OrderIdle /\ ArithIdle /\ NormIdle /\ ConvIdle /\ ScalarIdle /\ ListIdle /\ SizeIdle /\ PlaneIdle /\ ProjectIdle /\ LerpIdle /\ TriangleIdle /\ CanonIdle /\ EmptyIdle

SpecSide == InitSide /\ [][SideNext]_vars

(***************************************************************************)
(* The exactly solved parameters of the two segments, as the claims state  *)
(* them, independent of the scalar kind.                                   *)
(***************************************************************************)
ExactS(l, other) == Rational(NumeratorS(l, other), Denominator(l, other))
ExactT(l, other) == Rational(NumeratorT(l, other), Denominator(l, other))
InUnitInterval(r) == RLeq(FromInt(0), r) /\ RLeq(r, FromInt(1))

ExactlyIntersecting(l, other) ==
  /\ Denominator(l, other) # 0
  /\ InUnitInterval(ExactS(l, other))
  /\ InUnitInterval(ExactT(l, other))

\* a + (b - a) * r
PointAt(l, r) ==
  [x |-> RAdd(FromInt(l.a.x), RMul(FromInt(l.b.x - l.a.x), r)),
   y |-> RAdd(FromInt(l.a.y), RMul(FromInt(l.b.y - l.a.y), r))]

\* point q lies on the closed segment l: q - a is parallel to b - a and q is
\* inside the bounding box of a and b
OnSegment(l, q) ==
  LET dx == FromInt(l.b.x - l.a.x)
      dy == FromInt(l.b.y - l.a.y)
      qx == RAdd(q.x, FromInt(-l.a.x))
      qy == RAdd(q.y, FromInt(-l.a.y))
      lo(u, v) == IF u < v THEN u ELSE v
      hi(u, v) == IF u < v THEN v ELSE u
  IN  /\ RMul(dx, qy) = RMul(dy, qx)
      /\ RLeq(FromInt(lo(l.a.x, l.b.x)), q.x)
      /\ RLeq(q.x, FromInt(hi(l.a.x, l.b.x)))
      /\ RLeq(FromInt(lo(l.a.y, l.b.y)), q.y)
      /\ RLeq(q.y, FromInt(hi(l.a.y, l.b.y)))

(***************************************************************************)
(* C6: for every scalar kind, A.intersect(B).first is true exactly when    *)
(* the denominator is non-zero and the exactly solved s and t both lie in  *)
(* [0, 1]; parallel or collinear segments always report false.             *)
(***************************************************************************)
C6_FoundIffExactlyIntersecting ==
  lDone =>
     /\ lResult.first <=> ExactlyIntersecting(lA, lB)
     /\ Denominator(lA, lB) = 0 => ~lResult.first

(***************************************************************************)
(* C7: whenever intersect reports found, the returned point is the true    *)
(* intersection a + (b - a) * s and lies on both segments, for every       *)
(* scalar kind: (0,0)-(2,2) against (0,2)-(2,0) yields (true, (1,1)).      *)
(* When it reports not found, the point is the zero vector.                *)
(***************************************************************************)
C7_FoundPointIsIntersection ==
  lDone =>
     /\ lResult.first =>
          /\ lResult.second = PointAt(lA, ExactS(lA, lB))
          /\ OnSegment(lA, lResult.second)
          /\ OnSegment(lB, lResult.second)
     /\ ~lResult.first => lResult.second = ZeroVec2
     /\ (/\ lA = [a |-> [x |-> 0, y |-> 0], b |-> [x |-> 2, y |-> 2]]
         /\ lB = [a |-> [x |-> 0, y |-> 2], b |-> [x |-> 2, y |-> 0]])
          => lResult = [first |-> TRUE,
                        second |-> [x |-> FromInt(1), y |-> FromInt(1)]]

(***************************************************************************)
(* C8: side(p) is COINCIDENT exactly when the cross product                *)
(* (b.x-a.x)(p.y-a.y) - (b.y-a.y)(p.x-a.x) is zero, and LEFT for one sign  *)
(* and RIGHT for the other sign of a non-zero cross product.               *)
(***************************************************************************)
CrossProduct(l, p) ==
  (l.b.x - l.a.x) * (p.y - l.a.y) - (l.b.y - l.a.y) * (p.x - l.a.x)

C8_SideFollowsCrossProduct ==
  lDone =>
     /\ (lSide = "COINCIDENT") <=> (CrossProduct(lA, lP) = 0)
     /\ CrossProduct(lA, lP) # 0 => lSide \in {"LEFT", "RIGHT"}
     /\ \A q \in LinePoints :
          /\ CrossProduct(lA, lP) * CrossProduct(lA, q) < 0
               => side(lA, q) # lSide
          /\ CrossProduct(lA, lP) * CrossProduct(lA, q) > 0
               => side(lA, q) = lSide


(***************************************************************************)
(* Rect<T, 2>, rectangle2.h, in the arithmetic of T: an int far from its   *)
(* limits, or a float, whose sums and differences are rounded to           *)
(* FloatDigits significant bits.  A rect is [x, y, width, height]; the     *)
(* fields are whole numbers, small ones and a width or height of -2^25,    *)
(* next to which a float no longer holds every whole number.               *)
(***************************************************************************)
\* std::numeric_limits<float>::digits
FloatDigits == 24

\* the smallest power of two u >= from with a / u below 2^bits
RECURSIVE Ulp(_, _, _)
Ulp(a, bits, from) ==
  IF a \div from < 2^bits THEN from ELSE Ulp(a, bits, 2 * from)

\* an integer rounded to bits significant bits, ties to even
RoundInteger(bits, n) ==
  LET a == Abs(n)
      u == Ulp(a, bits, 1)
      q == a \div u
      r == a % u
      up == (2 * r > u) \/ (2 * r = u /\ q % 2 = 1)
      rounded == (IF up THEN q + 1 ELSE q) * u
  IN  IF n < 0 THEN -rounded ELSE rounded

RectKinds == {"int", "float"}
RectCoords == 0..MaxRectCoord
\* the widths and heights of kind T: small ones, and for a float one next to
\* which T no longer holds every whole number; an int holds them all
RectSizes(T) ==
  ((-MaxRectSize)..MaxRectSize)
    \cup (IF T = "float" THEN {-(2^(FloatDigits + 1))} ELSE {})
Rects(T) ==
  [x : RectCoords, y : RectCoords, width : RectSizes(T), height : RectSizes(T)]
RectPoints == [x : RectCoords, y : RectCoords]
\* the points handed to include(point): those, and for a float points far to
\* the left
IncludePoints(T) ==
  [x : RectCoords \cup (IF T = "float" THEN {-(2^(FloatDigits + 1))} ELSE {}),
   y : RectCoords]

\* std::min<T>, std::max<T>
Min(u, v) == IF v < u THEN v ELSE u
Max(u, v) == IF u < v THEN v ELSE u

\* u + v and u - v for two values of kind T
SumInKind(T, u, v) ==
  IF T = "float" THEN RoundInteger(FloatDigits, u + v) ELSE u + v
DifferenceInKind(T, u, v) ==
  IF T = "float" THEN RoundInteger(FloatDigits, u - v) ELSE u - v

\* maxX that takes x + width whatever its sign
maxXIgnoresSign(T, r) == SumInKind(T, r.x, r.width)

\* rectangle2.h:468-496
maxX(T, r) == Max(r.x, SumInKind(T, r.x, r.width))
minX(T, r) == Min(r.x, SumInKind(T, r.x, r.width))
minY(T, r) == Min(r.y, SumInKind(T, r.y, r.height))
maxY(T, r) == Max(r.y, SumInKind(T, r.y, r.height))

\* canonicalize that flips a negative height's origin but not its sign
canonicalizeKeepsHeightSign(T, r) ==
  LET r1 == IF r.width < 0
              THEN [r EXCEPT !.x = SumInKind(T, r.x, r.width),
                             !.width = -r.width]
              ELSE r
  IN  IF r1.height < 0
        THEN [r1 EXCEPT !.y = SumInKind(T, r1.y, r1.height)]
        ELSE r1

\* Rect<T, 2>::canonicalize, rectangle2.h:558-569
canonicalize(T, r) ==
  LET r1 == IF r.width < 0
              THEN [r EXCEPT !.x = SumInKind(T, r.x, r.width),
                             !.width = -r.width]
              ELSE r
  IN  IF r1.height < 0
        THEN [r1 EXCEPT !.y = SumInKind(T, r1.y, r1.height),
                        !.height = -r1.height]
        ELSE r1

\* the element of a set of one element
The(S) == CHOOSE v \in S : TRUE

\* Rect<T, 2>::include(T x, T y), rectangle2.h:663-682: canonicalize(), then
\* the four if statements in turn, each on the rect the one before left;
\* "width = this->width + this->x - x" is (width + this->x) - x in T
include(T, r, x, y) ==
  LET left(c) ==
        IF x < c.x
          THEN [c EXCEPT
                  !.width = DifferenceInKind(T, SumInKind(T, c.width, c.x), x),
                  !.x = x]
          ELSE c
      top(c) ==
        IF y < c.y
          THEN [c EXCEPT
                  !.height = DifferenceInKind(T, SumInKind(T, c.height, c.y), y),
                  !.y = y]
          ELSE c
      right(c) ==
        IF x > SumInKind(T, c.x, c.width)
          THEN [c EXCEPT !.width = DifferenceInKind(T, x, c.x)]
          ELSE c
      bottom(c) ==
        IF y > SumInKind(T, c.y, c.height)
          THEN [c EXCEPT !.height = DifferenceInKind(T, y, c.y)]
          ELSE c
  IN  The({bottom(r3) : r3 \in
        {right(r2) : r2 \in
          {top(r1) : r1 \in
            {left(r0) : r0 \in
              {canonicalize(T, this) : this \in {r}}}}}})

\* Rect<T, 2>::include(const Vec2<T>& point), rectangle2.h:684-687
includePoint(T, r, point) == include(T, r, point.x, point.y)

\* Rect<T, 2>::include(const Rect2<T>& rect), rectangle2.h:689-694
includeRect(T, r, rect) ==
  include(T, include(T, r, minX(T, rect), minY(T, rect)),
          maxX(T, rect), maxY(T, rect))

\* Rect<T, 2>::include(Iterator first, Iterator last), rectangle2.h:696-703
RECURSIVE includeRange(_, _, _)
includeRange(T, r, points) ==
  IF points = <<>>
    THEN r
    ELSE includeRange(T, includePoint(T, r, Head(points)), Tail(points))

\* the test with the right and bottom edges left out of the rect
containsHalfOpen(T, r, point) ==
  ~(point.x < minX(T, r) \/ maxX(T, r) <= point.x
      \/ point.y < minY(T, r) \/ maxY(T, r) <= point.y)

\* Rect<T, 2>::contains(const Vec2<U>& point), rectangle2.h:713-718
contains(T, r, point) ==
  ~(point.x < minX(T, r) \/ maxX(T, r) < point.x
      \/ point.y < minY(T, r) \/ maxY(T, r) < point.y)

\* the point ranges [first, last) of at most MaxRange points
PointRanges == UNION {[1..n -> RectPoints] : n \in 0..MaxRange}

\* any rect of kind T, canonical or not
RectInit ==
  /\ rKind \in RectKinds
  /\ rRect \in Rects(rKind)
  /\ rPrev = rRect
  /\ rOp = "none"
  /\ rArgs = {}

\* r.canonicalize()
Canonicalize ==
  /\ rOp = "none"
  /\ rPrev' = rRect
  /\ rRect' = canonicalize(rKind, rRect)
  /\ rOp' = "canonicalize"
  /\ rArgs' = {}
  /\ UNCHANGED <<notRect, rKind>>

\* r.include(p)
IncludePoint ==
  \E p \in IncludePoints(rKind) :
     /\ rOp = "none"
     /\ rPrev' = rRect
     /\ rRect' = includePoint(rKind, rRect, p)
     /\ rOp' = "include_point"
     /\ rArgs' = {p}
     /\ UNCHANGED <<notRect, rKind>>

\* r.include(other): the points it includes are other.min() and other.max()
IncludeRect ==
  \E other \in Rects(rKind) :
     /\ rOp = "none"
     /\ rPrev' = rRect
     /\ rRect' = includeRect(rKind, rRect, other)
     /\ rOp' = "include_rect"
     /\ rArgs' = {[x |-> minX(rKind, other), y |-> minY(rKind, other)],
                  [x |-> maxX(rKind, other), y |-> maxY(rKind, other)]}
     /\ UNCHANGED <<notRect, rKind>>

\* r.include(first, last)
IncludeRange ==
  \E points \in PointRanges :
     /\ rOp = "none"
     /\ rPrev' = rRect
     /\ rRect' = includeRange(rKind, rRect, points)
     /\ rOp' = "include_range"
     /\ rArgs' = {points[i] : i \in DOMAIN points}
     /\ UNCHANGED <<notRect, rKind>>

\* the call has returned *this (rectangle2.h:568, 681, 693, 702): the caller
\* keeps the rect and drops the call's arguments, and may call again
CallReturns ==
  /\ rOp # "none"
  /\ rOp' = "none"
  /\ rArgs' = {}
  /\ rPrev' = rRect
  /\ rRect' = rRect
  /\ UNCHANGED <<notRect, rKind>>

RectNext ==
  \/ Canonicalize
  \/ IncludePoint
  \/ IncludeRect
  \/ IncludeRange
  \/ CallReturns

InitRect == RectInit /\ RandomInit /\ PromoteIdle /\ LineIdle /\ QueryIdle /\ CircleIdle /\ OrderIdle /\ ArithIdle /\ NormIdle /\ ConvIdle /\ ScalarIdle /\ ListIdle /\ SizeIdle /\ PlaneIdle /\ ProjectIdle /\ LerpIdle /\ TriangleIdle /\ CanonIdle /\ EmptyIdle

SpecRect == InitRect /\ [][RectNext]_vars

(***************************************************************************)
(* C9: after r.canonicalize() width >= 0 and height >= 0, and              *)
(* canonicalizing again changes nothing.                                   *)
(***************************************************************************)
C9_CanonicalizeIdempotent ==
  rOp = "canonicalize" =>
     /\ rRect.width >= 0
     /\ rRect.height >= 0
     /\ canonicalize(rKind, rRect) = rRect

\* a rect with negative width and negative height has been canonicalized
C9_Witness ==
  /\ rOp = "canonicalize"
  /\ rPrev.width < 0
  /\ rPrev.height < 0
  /\ rRect # rPrev

(***************************************************************************)
(* C10: after every include call (point, rect or iterator-range overload), *)
(* in any sequence of include calls from any rect, the rect has            *)
(* non-negative width and height, contains every point the call included,  *)
(* still contains every point it contained before the call (so, step by    *)
(* step, every point included or contained earlier in the sequence), and   *)
(* after include(p) it is exactly the bounding box of the previous rect,   *)
(* canonicalized, and p.                                                   *)
(***************************************************************************)
IncludeOps == {"include_point", "include_rect", "include_range"}

\* the points of the plane around the small rects of the model
PlaneCoords == (-MaxRectSize - 1)..(MaxRectCoord + MaxRectSize + 1)
PlanePoints == [x : PlaneCoords, y : PlaneCoords]

\* Rect<T, 2>::min(), rectangle2.h:526-529
min(T, r) == [x |-> minX(T, r), y |-> minY(T, r)]

\* Rect<T, 2>::max(), rectangle2.h:531-534
max(T, r) == [x |-> maxX(T, r), y |-> maxY(T, r)]

\* the points a rect is tested on: those around the small rects, and its
\* own four corners
TestPoints(T, r) ==
  PlanePoints \cup [x : {minX(T, r), maxX(T, r)}, y : {minY(T, r), maxY(T, r)}]

\* the smallest canonical rect covering canonical rect c and point p
BoundingBox(c, p) ==
  [x |-> Min(c.x, p.x),
   y |-> Min(c.y, p.y),
   width |-> Max(c.x + c.width, p.x) - Min(c.x, p.x),
   height |-> Max(c.y + c.height, p.y) - Min(c.y, p.y)]

C10_IncludeGrowsToCover ==
  rOp \in IncludeOps =>
     /\ rRect.width >= 0
     /\ rRect.height >= 0
     /\ \A p \in rArgs : contains(rKind, rRect, p)
     /\ \A q \in TestPoints(rKind, rPrev) :
          contains(rKind, rPrev, q) => contains(rKind, rRect, q)
     /\ rOp = "include_point" =>
          \A p \in rArgs : rRect = BoundingBox(canonicalize(rKind, rPrev), p)


(***************************************************************************)
(* Rect<T, 2>: the containment and intersection tests, rectangle2.h:707-725 *)
(***************************************************************************)

\* Rect<T, 2>::contains(const Rect2<U>& other), rectangle2.h:707-711
containsRect(T, r, other) ==
  contains(T, r, min(T, other)) /\ contains(T, r, max(T, other))

\* the test with one of the four comparisons left out
intersectsIgnoresBottom(T, r, other) ==
  ~(minX(T, r) > maxX(T, other) \/ maxX(T, r) < minX(T, other)
      \/ minY(T, r) > maxY(T, other))

\* Rect<T, 2>::intersects(const Rect2<U>& other), rectangle2.h:720-725
intersects(T, r, other) ==
  ~(minX(T, r) > maxX(T, other) \/ maxX(T, r) < minX(T, other)
      \/ minY(T, r) > maxY(T, other) \/ maxY(T, r) < minY(T, other))

\* a rect of kind T, canonical or not, that no test has been applied to yet
QueryInit ==
  /\ qKind \in RectKinds
  /\ qRect \in Rects(qKind)
  /\ qOther = [x |-> 0, y |-> 0, width |-> 0, height |-> 0]
  /\ qPoint = [x |-> 0, y |-> 0]
  /\ qOp = "none"
  /\ qResult = FALSE
  /\ qReverse = FALSE

\* r.contains(point); the rect is left as it is
ContainsPoint ==
  /\ qOp = "none"
  /\ \E point \in TestPoints(qKind, qRect) :
       /\ qPoint' = point
       /\ qResult' = contains(qKind, qRect, point)
  /\ qOp' = "contains_point"
  /\ UNCHANGED <<notQuery, qKind, qRect, qOther, qReverse>>

\* r.contains(other)
ContainsRect ==
  /\ qOp = "none"
  /\ \E other \in Rects(qKind) :
       /\ qOther' = other
       /\ qResult' = containsRect(qKind, qRect, other)
  /\ qOp' = "contains_rect"
  /\ UNCHANGED <<notQuery, qKind, qRect, qPoint, qReverse>>

\* r.intersects(other), and other.intersects(r) on the same two rects
Intersects ==
  /\ qOp = "none"
  /\ \E other \in Rects(qKind) :
       /\ qOther' = other
       /\ qResult' = intersects(qKind, qRect, other)
       /\ qReverse' = intersects(qKind, other, qRect)
  /\ qOp' = "intersects"
  /\ UNCHANGED <<notQuery, qKind, qRect, qPoint>>

QueryNext ==
  \/ ContainsPoint
  \/ ContainsRect
  \/ Intersects

InitQuery == QueryInit /\ RandomInit /\ PromoteIdle /\ LineIdle /\ RectIdle /\ CircleIdle /\ OrderIdle /\ ArithIdle /\ NormIdle /\ ConvIdle /\ ScalarIdle /\ ListIdle /\ SizeIdle /\ PlaneIdle /\ ProjectIdle /\ LerpIdle /\ TriangleIdle /\ CanonIdle /\ EmptyIdle

SpecQuery == InitQuery /\ [][QueryNext]_vars

\* p lies in the closed intervals between x and x + width and between y and
\* y + height, the sums as T computes them
InClosedExtent(T, r, p) ==
  /\ Min(r.x, SumInKind(T, r.x, r.width)) <= p.x
  /\ p.x <= Max(r.x, SumInKind(T, r.x, r.width))
  /\ Min(r.y, SumInKind(T, r.y, r.height)) <= p.y
  /\ p.y <= Max(r.y, SumInKind(T, r.y, r.height))

\* x + width and y + height are values of T
EdgesAreExact(T, r) ==
  /\ SumInKind(T, r.x, r.width) = r.x + r.width
  /\ SumInKind(T, r.y, r.height) = r.y + r.height

(***************************************************************************)
(* C11 as stated: r.contains(p) is true exactly when p lies in the closed  *)
(* intervals [min(x, x+width), max(x, x+width)] and [min(y, y+height),     *)
(* max(y, y+height)], so a non-canonical rect answers as its canonical     *)
(* form does; r.contains(other) is true exactly when r contains both       *)
(* other.min() and other.max().                                            *)
(***************************************************************************)
C11_ContainsIsClosedInterval ==
  /\ qOp = "contains_point" =>
       /\ qResult <=> InClosedExtent(qKind, qRect, qPoint)
       /\ qResult <=> contains(qKind, canonicalize(qKind, qRect), qPoint)
  /\ qOp = "contains_rect" =>
       (qResult <=> /\ InClosedExtent(qKind, qRect, min(qKind, qOther))
                    /\ InClosedExtent(qKind, qRect, max(qKind, qOther)))

(***************************************************************************)
(* C11, amended: the same, the canonical form answering as the rect does   *)
(* whenever the rect's far edges x + width and y + height are computed     *)
(* exactly in T (every rect of an integral T away from the limits of T).   *)
(***************************************************************************)
C11_ContainsIsClosedIntervalOfExactEdges ==
  /\ qOp = "contains_point" =>
       /\ qResult <=> InClosedExtent(qKind, qRect, qPoint)
       /\ EdgesAreExact(qKind, qRect) =>
            (qResult <=> contains(qKind, canonicalize(qKind, qRect), qPoint))
  /\ qOp = "contains_rect" =>
       (qResult <=> /\ InClosedExtent(qKind, qRect, min(qKind, qOther))
                    /\ InClosedExtent(qKind, qRect, max(qKind, qOther)))

\* the far corner of a float rect of width -2^25 and positive height, with
\* exact edges, is contained, in the rect and in its canonical form
C11_Witness ==
  /\ qOp = "contains_point"
  /\ qKind = "float"
  /\ qRect.width = -(2^(FloatDigits + 1)) /\ qRect.height > 0
  /\ EdgesAreExact(qKind, qRect)
  /\ qPoint = [x |-> qRect.x + qRect.width, y |-> qRect.y + qRect.height]
  /\ qResult
  /\ contains(qKind, canonicalize(qKind, qRect), qPoint)

(***************************************************************************)
(* C12: r.intersects(o) is true exactly when the closed x-extents and the  *)
(* closed y-extents of r and o overlap, rects that only touch intersect,   *)
(* and r.intersects(o) = o.intersects(r), for non-canonical rects too.     *)
(***************************************************************************)
\* two closed intervals share a coordinate: then they share the lower end of
\* one of them
Overlap(lo1, hi1, lo2, hi2) ==
  \E c \in {lo1, lo2} : lo1 <= c /\ c <= hi1 /\ lo2 <= c /\ c <= hi2

ExtentsOverlap(T, r, o) ==
  /\ Overlap(Min(r.x, SumInKind(T, r.x, r.width)),
             Max(r.x, SumInKind(T, r.x, r.width)),
             Min(o.x, SumInKind(T, o.x, o.width)),
             Max(o.x, SumInKind(T, o.x, o.width)))
  /\ Overlap(Min(r.y, SumInKind(T, r.y, r.height)),
             Max(r.y, SumInKind(T, r.y, r.height)),
             Min(o.y, SumInKind(T, o.y, o.height)),
             Max(o.y, SumInKind(T, o.y, o.height)))

C12_IntersectsIsClosedOverlap ==
  qOp = "intersects" =>
     /\ qResult <=> ExtentsOverlap(qKind, qRect, qOther)
     /\ qResult = qReverse

\* two rects that share one corner only, one of them non-canonical
C12_Witness ==
  /\ qOp = "intersects"
  /\ qRect.width < 0
  /\ maxX(qKind, qRect) = minX(qKind, qOther)
  /\ maxY(qKind, qRect) = minY(qKind, qOther)
  /\ qOther.width > 0 /\ qOther.height > 0
  /\ qRect.height # 0
  /\ qResult


(***************************************************************************)
(* Circle2<T>: comparison and containment, circle2.h:156-232, for          *)
(* T = int.  The squared distance is computed in Promote<int> = double.    *)
(***************************************************************************)
CircleCoords == 0..MaxCircleCoord
Radii == (-MaxRadius)..MaxRadius
Circles == [center : [x : CircleCoords, y : CircleCoords], radius : Radii]
CirclePoints == [x : 0..(MaxRadius + 1), y : 0..(MaxRadius + 1)]

\* operator-(const Vec2<T>& lhs, const Vec2<U>& rhs), vector2.h:645-649
Vec2Minus(lhs, rhs) ==
  [x |-> RAdd(FromInt(lhs.x), FromInt(-rhs.x)),
   y |-> RAdd(FromInt(lhs.y), FromInt(-rhs.y))]

\* Vec<T, 2>::magnitudeSquared() of a vector of doubles, vector2.h:763-766
magnitudeSquared(v) == RAdd(RMul(v.x, v.x), RMul(v.y, v.y))

\* Vec<T, 2>::distanceSquared(other), vector2.h:822-826
distanceSquared(v, other) == magnitudeSquared(Vec2Minus(v, other))

\* the comparison with the boundary left out
CircleContainsStrict(c, point) ==
  LET d == distanceSquared(c.center, point)
      rr == FromInt(c.radius * c.radius)
  IN  RLeq(d, rr) /\ d # rr

\* Circle2<T>::contains(const Vec2<U>& point), circle2.h:228-232
CircleContains(c, point) ==
  RLeq(distanceSquared(c.center, point), FromInt(c.radius * c.radius))

\* operator<(Vec2, Vec2), vector2.h:576-579
Vec2Less(lhs, rhs) == lhs.x < rhs.x \/ (lhs.x = rhs.x /\ lhs.y < rhs.y)

\* operator==(Vec2, Vec2), vector2.h:566-569
Vec2Equal(lhs, rhs) == lhs.x = rhs.x /\ lhs.y = rhs.y

\* Circle2<T>::operator==(const Circle2<U>& other), circle2.h:158-161
CircleEqual(c, other) ==
  Vec2Less(c.center, other.center) \/ Vec2Equal(c.center, other.center)

\* Circle2<T>::operator!=(const Circle2<U>& other), circle2.h:163-166
CircleNotEqual(c, other) == ~CircleEqual(c, other)

\* Circle(const Vec2<T>& center, T radius), circle2.h:111-114
CircleInit ==
  /\ cCircle \in Circles
  /\ cOther = [center |-> [x |-> 0, y |-> 0], radius |-> 0]
  /\ cPoint = [x |-> 0, y |-> 0]
  /\ cOp = "none"
  /\ cResult = FALSE
  /\ cNegated = FALSE

\* c.contains(point)
Contains ==
  /\ cOp = "none"
  /\ \E point \in CirclePoints :
       /\ cPoint' = point
       /\ cResult' = CircleContains(cCircle, point)
  /\ cOp' = "contains"
  /\ UNCHANGED <<notCircle, cCircle, cOther, cNegated>>

\* c == other and c != other
Compare ==
  /\ cOp = "none"
  /\ \E other \in Circles :
       /\ cOther' = other
       /\ cResult' = CircleEqual(cCircle, other)
       /\ cNegated' = CircleNotEqual(cCircle, other)
  /\ cOp' = "compare"
  /\ UNCHANGED <<notCircle, cCircle, cPoint>>

CircleNext ==
  \/ Contains
  \/ Compare

InitCircle == CircleInit /\ RandomInit /\ PromoteIdle /\ LineIdle /\ RectIdle /\ QueryIdle /\ OrderIdle /\ ArithIdle /\ NormIdle /\ ConvIdle /\ ScalarIdle /\ ListIdle /\ SizeIdle /\ PlaneIdle /\ ProjectIdle /\ LerpIdle /\ TriangleIdle /\ CanonIdle /\ EmptyIdle

SpecCircle == InitCircle /\ [][CircleNext]_vars

(***************************************************************************)
(* C13: Circle::contains(p) is true exactly when the squared distance from *)
(* the center to p is <= radius * radius, the boundary included:           *)
(* Circle((0,0), 5) contains (3,4) and does not contain (3,5).             *)
(***************************************************************************)
SquaredDistance(p, q) == (p.x - q.x) * (p.x - q.x) + (p.y - q.y) * (p.y - q.y)

C13_ContainsIsSquaredDistanceTest ==
  cOp = "contains" =>
     /\ cResult <=>
          SquaredDistance(cCircle.center, cPoint) <= cCircle.radius * cCircle.radius
     /\ (cCircle = [center |-> [x |-> 0, y |-> 0], radius |-> 5]
           /\ cPoint = [x |-> 3, y |-> 4]) => cResult
     /\ (cCircle = [center |-> [x |-> 0, y |-> 0], radius |-> 5]
           /\ cPoint = [x |-> 3, y |-> 5]) => ~cResult

\* the point (3,4) on the boundary of Circle((0,0), 5)
C13_Witness ==
  /\ cOp = "contains"
  /\ cCircle = [center |-> [x |-> 0, y |-> 0], radius |-> 5]
  /\ cPoint = [x |-> 3, y |-> 4]
  /\ cResult


(***************************************************************************)
(* Vec2, Vec3, Vec4 of integers: operator==, operator< and operator>,      *)
(* vector2.h:566-584, vector3.h:590-610, vector4.h:570-596.  A vector of   *)
(* dimension 2 or 3 has no z or w: the model keeps them 0.                 *)
(***************************************************************************)
Dimensions == {2, 3, 4}
OrderCoords == 0..MaxOrderCoord

OrderVecs(dim) ==
  [x : OrderCoords, y : OrderCoords,
   z : IF dim >= 3 THEN OrderCoords ELSE {0},
   w : IF dim >= 4 THEN OrderCoords ELSE {0}]

\* operator>(Vec2, Vec2), vector2.h:581-584
Vec2Greater(lhs, rhs) == lhs.x > rhs.x \/ (lhs.x = rhs.x /\ lhs.y > rhs.y)

\* operator==(Vec3, Vec3), vector3.h:590-593
Vec3Equal(lhs, rhs) == lhs.x = rhs.x /\ lhs.y = rhs.y /\ lhs.z = rhs.z

\* operator<(Vec3, Vec3), vector3.h:600-604
Vec3Less(lhs, rhs) ==
  lhs.x < rhs.x \/ (lhs.x = rhs.x /\
    (lhs.y < rhs.y \/ (lhs.y = rhs.y /\ lhs.z < rhs.z)))

\* operator>(Vec3, Vec3), vector3.h:606-610
Vec3Greater(lhs, rhs) ==
  lhs.x > rhs.x \/ (lhs.x = rhs.x /\
    (lhs.y > rhs.y \/ (lhs.y = rhs.y /\ lhs.z > rhs.z)))

\* Vec<T, 4>::operator==, vector4.h:570-574
Vec4Equal(v, other) ==
  v.x = other.x /\ v.y = other.y /\ v.z = other.z /\ v.w = other.w

\* Vec<T, 4>::operator<, vector4.h:582-588: z is compared with other.y
Vec4Less(v, other) ==
  v.x < other.x \/ (v.x = other.x /\
    (v.y < other.y \/ (v.y = other.y /\
      (v.z < other.y \/ (v.z = other.y /\ v.w < other.w)))))

\* Vec<T, 4>::operator>, vector4.h:590-596: z is compared with other.y
Vec4Greater(v, other) ==
  v.x > other.x \/ (v.x = other.x /\
    (v.y > other.y \/ (v.y = other.y /\
      (v.z > other.y \/ (v.z = other.y /\ v.w > other.w)))))

Equal(dim, a, b) ==
  IF dim = 2 THEN Vec2Equal(a, b)
  ELSE IF dim = 3 THEN Vec3Equal(a, b) ELSE Vec4Equal(a, b)

Less(dim, a, b) ==
  IF dim = 2 THEN Vec2Less(a, b)
  ELSE IF dim = 3 THEN Vec3Less(a, b) ELSE Vec4Less(a, b)

Greater(dim, a, b) ==
  IF dim = 2 THEN Vec2Greater(a, b)
  ELSE IF dim = 3 THEN Vec3Greater(a, b) ELSE Vec4Greater(a, b)

OrderInit ==
  /\ oDim \in Dimensions
  /\ oA \in OrderVecs(oDim)
  /\ oB = [x |-> 0, y |-> 0, z |-> 0, w |-> 0]
  /\ oDone = FALSE
  /\ oLess = FALSE
  /\ oGreater = FALSE
  /\ oEqual = FALSE

\* a == b, a < b and a > b on the same two vectors
CompareVecs ==
  /\ ~oDone
  /\ \E b \in OrderVecs(oDim) :
       /\ oB' = b
       /\ oEqual' = Equal(oDim, oA, b)
       /\ oLess' = Less(oDim, oA, b)
       /\ oGreater' = Greater(oDim, oA, b)
  /\ oDone' = TRUE
  /\ UNCHANGED <<notOrder, oDim, oA>>

OrderNext == CompareVecs

InitOrder == OrderInit /\ RandomInit /\ PromoteIdle /\ LineIdle /\ RectIdle /\ QueryIdle /\ CircleIdle /\ ArithIdle /\ NormIdle /\ ConvIdle /\ ScalarIdle /\ ListIdle /\ SizeIdle /\ PlaneIdle /\ ProjectIdle /\ LerpIdle /\ TriangleIdle /\ CanonIdle /\ EmptyIdle

SpecOrder == InitOrder /\ [][OrderNext]_vars

(***************************************************************************)
(* C14: for Vec2, Vec3 and Vec4 of integers, a < b iff a's component is    *)
(* smaller at the first position, in the order x, y, z, w, where a and b   *)
(* differ; operator> is the converse; exactly one of a < b, a == b, a > b  *)
(* holds.                                                                  *)
(***************************************************************************)
Components(v) == <<v.x, v.y, v.z, v.w>>

LexLess(a, b) ==
  \E i \in 1..4 :
    /\ Components(a)[i] < Components(b)[i]
    /\ \A j \in 1..(i - 1) : Components(a)[j] = Components(b)[j]

C14_OrderIsLexicographic ==
  oDone =>
     /\ oLess <=> LexLess(oA, oB)
     /\ oGreater <=> LexLess(oB, oA)
     /\ (oLess /\ ~oEqual /\ ~oGreater)
          \/ (~oLess /\ oEqual /\ ~oGreater)
          \/ (~oLess /\ ~oEqual /\ oGreater)


(***************************************************************************)
(* C15: a == b is true exactly when all corresponding fields are equal and *)
(* a != b is its negation; two Circles compare equal iff their centers are *)
(* equal and their radii are equal.                                        *)
(***************************************************************************)
C15_EqualIffAllFieldsEqual ==
  cOp = "compare" =>
     /\ cResult <=> (/\ cCircle.center.x = cOther.center.x
                     /\ cCircle.center.y = cOther.center.y
                     /\ cCircle.radius = cOther.radius)
     /\ cNegated <=> ~cResult


(***************************************************************************)
(* Arithmetic of Vec2, Vec3, Vec4, Size2 and Size3: vector2.h:602-691,     *)
(* vector3.h:632-700, vector4.h:621-704, size2.h:505-527, size3.h:506-528. *)
(* A value of a floating kind is a rational <<n, d>>; <<1, 0>>, <<-1, 0>>  *)
(* and <<0, 0>> are the IEEE results +inf, -inf and NaN of a division by   *)
(* zero.  A value of an integral kind is an integer of that kind's width.  *)
(***************************************************************************)
ArithKinds == {"int", "unsigned char", "double"}
ArithCoords == 0..MaxArithCoord
ArithOps == {"+", "-", "*", "/"}

ArithVecs(dim) ==
  [x : ArithCoords, y : ArithCoords,
   z : IF dim >= 3 THEN ArithCoords ELSE {0},
   w : IF dim >= 4 THEN ArithCoords ELSE {0}]

\* the shapes and dimensions the library declares: Vec2, Vec3, Vec4, Size2, Size3
Shapes == {<<"Vec", 2>>, <<"Vec", 3>>, <<"Vec", 4>>, <<"Size", 2>>, <<"Size", 3>>}

\* the value n stored in an object of integral kind T: unsigned char keeps the
\* low 8 bits
Wrap(T, n) == IF T = "unsigned char" THEN n % 256 ELSE n

\* p / q in a floating kind, IEEE 754: x / 0 is an infinity, 0 / 0 is NaN
FloatDivide(p, q) ==
  IF q[1] = 0
    THEN IF p[1] = 0 THEN <<0, 0>>
         ELSE IF p[1] > 0 THEN <<1, 0>> ELSE <<-1, 0>>
    ELSE Rational(p[1] * q[2], p[2] * q[1])

\* p op q in a floating kind
FloatOp(op, p, q) ==
  CASE op = "+" -> RAdd(p, q)
    [] op = "-" -> RAdd(p, <<-q[1], q[2]>>)
    [] op = "*" -> RMul(p, q)
    [] op = "/" -> FloatDivide(p, q)

\* l op r in the integral kind T, for r # 0 when op is "/"
IntOp(T, op, l, r) ==
  CASE op = "+" -> Wrap(T, l + r)
    [] op = "-" -> Wrap(T, l - r)
    [] op = "*" -> Wrap(T, l * r)
    [] op = "/" -> Wrap(T, TruncDiv(l, r))

\* the operation done in T and its result converted afterwards
UnpromotedOp(T, op, l, r) ==
  IF is_integral(T) /\ ~(op = "/" /\ r = 0)
    THEN FromInt(IntOp(T, op, l, r))
    ELSE FloatOp(op, FromInt(l), FromInt(r))

\* static_cast<V>(lhs.x) op rhs.x with V = Promote<T, U>, vector2.h:639-661:
\* V is a floating kind, so both operands are converted to it
PromotedOp(T, op, l, r) ==
  IF is_floating_point(Promote(T, T))
    THEN FloatOp(op, FromInt(l), FromInt(r))
    ELSE FromInt(IntOp(T, op, l, r))

\* operator+,-,*,/(const Vec2<T>&, const Vec2<U>&), vector2.h:639-661
Vec2Arith(T, op, lhs, rhs) ==
  [x |-> PromotedOp(T, op, lhs.x, rhs.x),
   y |-> PromotedOp(T, op, lhs.y, rhs.y),
   z |-> FromInt(0), w |-> FromInt(0)]

\* operator+,-,*,/(const Vec3<T>&, const Vec3<U>&), vector3.h:670-700
Vec3Arith(T, op, lhs, rhs) ==
  [x |-> PromotedOp(T, op, lhs.x, rhs.x),
   y |-> PromotedOp(T, op, lhs.y, rhs.y),
   z |-> PromotedOp(T, op, lhs.z, rhs.z),
   w |-> FromInt(0)]

\* the z component taken from the other vector's y
Vec4ArithZFromY(T, op, v, other) ==
  [x |-> PromotedOp(T, op, v.x, other.x),
   y |-> PromotedOp(T, op, v.y, other.y),
   z |-> PromotedOp(T, op, v.z, other.y),
   w |-> PromotedOp(T, op, v.w, other.w)]

\* Vec<T, 4>::operator+,-,*,/(const Vec4<U>& other), vector4.h:666-704
Vec4Arith(T, op, v, other) ==
  [x |-> PromotedOp(T, op, v.x, other.x),
   y |-> PromotedOp(T, op, v.y, other.y),
   z |-> PromotedOp(T, op, v.z, other.z),
   w |-> PromotedOp(T, op, v.w, other.w)]

\* Size2<T>::operator+,-,*,/(const Size2<U>& other), size2.h:505-527:
\* Size2<Promote<T, U>>(vector op other.vector)
Size2Arith(T, op, s, other) == Vec2Arith(T, op, s, other)

\* Size<T, 3>::operator+,-,*,/(const Size3<U>& other), size3.h:506-528
Size3Arith(T, op, s, other) == Vec3Arith(T, op, s, other)

Arith(shape, dim, T, op, a, b) ==
  CASE shape = "Vec" /\ dim = 2 -> Vec2Arith(T, op, a, b)
    [] shape = "Vec" /\ dim = 3 -> Vec3Arith(T, op, a, b)
    [] shape = "Vec" /\ dim = 4 -> Vec4Arith(T, op, a, b)
    [] shape = "Size" /\ dim = 2 -> Size2Arith(T, op, a, b)
    [] shape = "Size" /\ dim = 3 -> Size3Arith(T, op, a, b)


\* the components a vector of the dimension has
Fields(dim) ==
  IF dim = 2 THEN {"x", "y"}
  ELSE IF dim = 3 THEN {"x", "y", "z"} ELSE {"x", "y", "z", "w"}

\* a vector of integers seen as a result value
AsResult(v) == [f \in {"x", "y", "z", "w"} |-> FromInt(v[f])]

\* Vec<T, D>(T value): every component set to the scalar
Splat(dim, scalar) ==
  [f \in {"x", "y", "z", "w"} |-> IF f \in Fields(dim) THEN scalar ELSE 0]

\* x / y of operator/=, done in T itself, for a divisor that is not an
\* integral zero
DivideInKind(T, l, r) ==
  IF is_integral(T)
    THEN FromInt(IntOp(T, "/", l, r))
    ELSE FloatDivide(FromInt(l), FromInt(r))

\* Vec<T, D>::operator/=(const Vec& other), vector2.h:626-631,
\* vector3.h:656-662, vector4.h:648-655: "x /= other.x; ..." with no check of
\* the divisor.  An integral division by zero is undefined: the build either
\* raises the hardware's arithmetic signal or goes on with some value in
\* the components whose divisor is zero.
DivideAssign(dim, T, v, other) ==
  IF is_integral(T) /\ \E f \in Fields(dim) : other[f] = 0
    THEN {[status |-> "signal", value |-> AsResult(v)]}
           \cup {[status |-> "value", value |-> AsResult(u)] :
                   u \in {u \in ArithVecs(dim) :
                            \A f \in Fields(dim) :
                              other[f] # 0 =>
                                u[f] = IntOp(T, "/", v[f], other[f])}}
    ELSE {[status |-> "value",
           value |-> [f \in {"x", "y", "z", "w"} |->
                        IF f \in Fields(dim)
                          THEN DivideInKind(T, v[f], other[f])
                          ELSE FromInt(0)]]}

\* operator/(const Vec<T, D>& lhs, U rhs), vector2.h:711-715,
\* vector3.h:760-766, vector4.h:774-782
DivideByScalar(dim, T, lhs, rhs) ==
  [f \in {"x", "y", "z", "w"} |->
     IF f \in Fields(dim) THEN PromotedOp(T, "/", lhs[f], rhs)
     ELSE FromInt(0)]

\* two operands of one scalar kind, shape and dimension
ArithInit ==
  /\ aKind \in ArithKinds
  /\ \E shape \in Shapes : aShape = shape[1] /\ aDim = shape[2]
  /\ aA \in ArithVecs(aDim)
  /\ aB = [x |-> 0, y |-> 0, z |-> 0, w |-> 0]
  /\ aOp = "none"
  /\ aStatus = "none"
  /\ aType = "none"
  /\ aResult = [x |-> <<0, 1>>, y |-> <<0, 1>>, z |-> <<0, 1>>, w |-> <<0, 1>>]

\* a + b, a - b, a * b, a / b
Binary ==
  /\ aOp = "none"
  /\ \E op \in ArithOps, b \in ArithVecs(aDim) :
       /\ aB' = b
       /\ aOp' = op
       /\ aResult' = Arith(aShape, aDim, aKind, op, aA, b)
  /\ aStatus' = "value"
  /\ aType' = Promote(aKind, aKind)
  /\ UNCHANGED <<notArith, aKind, aShape, aDim, aA>>

\* a /= b for vectors
DivideAssignVec ==
  /\ aOp = "none"
  /\ aShape = "Vec"
  /\ \E b \in ArithVecs(aDim) :
       /\ aB' = b
       /\ \E outcome \in DivideAssign(aDim, aKind, aA, b) :
            /\ aStatus' = outcome.status
            /\ aResult' = outcome.value
  /\ aOp' = "/="
  /\ aType' = aKind
  /\ UNCHANGED <<notArith, aKind, aShape, aDim, aA>>

\* a / scalar for vectors
DivideScalar ==
  /\ aOp = "none"
  /\ aShape = "Vec"
  /\ \E scalar \in ArithCoords :
       /\ aB' = Splat(aDim, scalar)
       /\ aResult' = DivideByScalar(aDim, aKind, aA, scalar)
  /\ aOp' = "/ scalar"
  /\ aStatus' = "value"
  /\ aType' = Promote(aKind, aKind)
  /\ UNCHANGED <<notArith, aKind, aShape, aDim, aA>>

\* a /= scalar for vectors, vector2.h:686-691, vector3.h:728-734,
\* vector4.h:735-742
DivideAssignScalar ==
  /\ aOp = "none"
  /\ aShape = "Vec"
  /\ \E scalar \in ArithCoords :
       /\ aB' = Splat(aDim, scalar)
       /\ \E outcome \in DivideAssign(aDim, aKind, aA, Splat(aDim, scalar)) :
            /\ aStatus' = outcome.status
            /\ aResult' = outcome.value
  /\ aOp' = "/= scalar"
  /\ aType' = aKind
  /\ UNCHANGED <<notArith, aKind, aShape, aDim, aA>>

ArithNext ==
  \/ Binary
  \/ DivideAssignVec
  \/ DivideScalar
  \/ DivideAssignScalar

InitArith == ArithInit /\ RandomInit /\ PromoteIdle /\ LineIdle /\ RectIdle /\ QueryIdle /\ CircleIdle /\ OrderIdle /\ NormIdle /\ ConvIdle /\ ScalarIdle /\ ListIdle /\ SizeIdle /\ PlaneIdle /\ ProjectIdle /\ LerpIdle /\ TriangleIdle /\ CanonIdle /\ EmptyIdle

SpecArith == InitArith /\ [][ArithNext]_vars

(***************************************************************************)
(* C16: dividing a vector by a zero scalar, or by a vector that has a zero *)
(* component (operator/ and operator/= of Vec2, Vec3, Vec4), ends in a     *)
(* runtime assertion failure in a debug build instead of producing a       *)
(* result value.                                                           *)
(***************************************************************************)
DivisionOps == {"/", "/=", "/ scalar", "/= scalar"}

C16_DivisionByZeroAsserts ==
  (/\ aShape = "Vec"
   /\ aOp \in DivisionOps
   /\ \E f \in Fields(aDim) : aB[f] = 0)
    => aStatus = "assert_failed"


(***************************************************************************)
(* C17: for every vector v of dimension 2, 3 or 4 and every scalar kind,   *)
(* unsigned and narrow integer kinds included, v - v equals the zero       *)
(* vector of the promoted type Promote<T>, with no wrap-around.            *)
(***************************************************************************)
C17_SelfDifferenceIsZero ==
  (aShape = "Vec" /\ aOp = "-" /\ aB = aA) =>
     /\ aType = Promote(aKind, aKind)
     /\ aStatus = "value"
     /\ \A f \in {"x", "y", "z", "w"} : aResult[f] = <<0, 1>>

\* a Vec4 of unsigned chars whose components differ, subtracted from itself
C17_Witness ==
  /\ aShape = "Vec" /\ aDim = 4 /\ aKind = "unsigned char"
  /\ aOp = "-" /\ aB = aA
  /\ aA.x # aA.y /\ aA.y # aA.z /\ aA.z # aA.w
  /\ aType = "double"

(***************************************************************************)
(* C20: for vectors and sizes a, b of scalar kind T and each op in         *)
(* {+, -, *, /}, every component of (a op b) equals Promote<T>(a.c) op b.c *)
(* computed in the promoted type, so integer operands never wrap around or *)
(* truncate in the result.                                                 *)
(***************************************************************************)
\* l op r over the rationals, for r # 0 when op is "/"
Exact(op, l, r) ==
  CASE op = "+" -> <<l + r, 1>>
    [] op = "-" -> <<l - r, 1>>
    [] op = "*" -> <<l * r, 1>>
    [] op = "/" -> Rational(l, r)

C20_ArithmeticInPromotedType ==
  aOp \in ArithOps =>
     /\ aType = Promote(aKind, aKind)
     /\ is_floating_point(aType)
     /\ aStatus = "value"
     /\ \A f \in Fields(aDim) :
          IF aOp = "/" /\ aB[f] = 0
            THEN aResult[f][2] = 0
            ELSE aResult[f] = Exact(aOp, aA[f], aB[f])

\* unsigned chars: a difference below zero and a quotient that is not whole
C20_Witness ==
  /\ aKind = "unsigned char" /\ aShape = "Size" /\ aDim = 3
  /\ \/ aOp = "-" /\ aA.x < aB.x /\ aResult.x[1] < 0
     \/ aOp = "/" /\ aA.x = 1 /\ aB.x = 2 /\ aResult.x = <<1, 2>>


(***************************************************************************)
(* Vec<T, D>::magnitude, normalize and normalized, vector2.h:758-798,      *)
(* vector3.h:825-865, vector4.h:845-885.  A double is a rational mantissa  *)
(* m times 10^e; the mantissa <<1, 0>> is +inf.  A product whose decimal   *)
(* exponent leaves the range of the kind underflows to 0 or overflows to   *)
(* +inf, and std::sqrt is correct to 1 / SqrtScale of the mantissa.        *)
(***************************************************************************)
NormKinds == {"int", "double"}
NormCoords == (-MaxNormCoord)..MaxNormCoord

\* the decimal exponents of the doubles of the model
Exponents == {-200, -100, 0, 100, 200}

\* std::numeric_limits<double>: the smallest and largest decimal exponent
MinExponent10 == -323
MaxExponent10 == 308

NormVecs(dim) ==
  [x : NormCoords, y : NormCoords,
   z : IF dim >= 3 THEN NormCoords ELSE {0},
   w : IF dim >= 4 THEN NormCoords ELSE {0}]

FloatZero == [m |-> <<0, 1>>, e |-> 0]
FloatInf == [m |-> <<1, 0>>, e |-> 0]
FloatNaN == [m |-> <<0, 0>>, e |-> 0]

\* the value n * 10^e of a floating kind
Float(n, e) == IF n = 0 THEN FloatZero ELSE [m |-> <<n, 1>>, e |-> e]

\* a result rounded into the range of the kind
InRange(f) ==
  IF f.m[2] = 0 THEN FloatInf
  ELSE IF f.m[1] = 0 THEN FloatZero
  ELSE IF f.e > MaxExponent10 THEN FloatInf
  ELSE IF f.e < MinExponent10 THEN FloatZero
  ELSE f

FloatTimes(f, g) ==
  IF f.m[2] = 0 \/ g.m[2] = 0 THEN FloatInf
  ELSE InRange([m |-> RMul(f.m, g.m), e |-> f.e + g.e])

\* p + q over a common denominator
RSum(p, q) ==
  LET g == GCD(p[2], q[2])
  IN  Rational(p[1] * (q[2] \div g) + q[1] * (p[2] \div g),
               (p[2] \div g) * q[2])

\* f + g for a zero, an infinity, or two values of one decimal exponent
FloatPlus(f, g) ==
  IF f.m[2] = 0 \/ g.m[2] = 0 THEN FloatInf
  ELSE IF f.m[1] = 0 THEN g
  ELSE IF g.m[1] = 0 THEN f
  ELSE InRange([m |-> RSum(f.m, g.m), e |-> f.e])

\* f / g; a finite value divided by an infinity is 0, 0 / 0 is NaN
FloatOver(f, g) ==
  IF g.m[2] = 0 THEN FloatZero
  ELSE IF g.m[1] = 0
         THEN IF f.m[1] = 0 THEN FloatNaN ELSE FloatInf
  ELSE IF f.m[2] = 0 THEN FloatInf
  ELSE InRange([m |-> Rational(f.m[1] * g.m[2], f.m[2] * g.m[1]),
                e |-> f.e - g.e])

\* the largest r in lo..hi with r * r <= n
RECURSIVE ISqrt(_, _, _)
ISqrt(lo, hi, n) ==
  IF lo >= hi THEN lo
  ELSE LET mid == (lo + hi + 1) \div 2
       IN  IF mid * mid <= n THEN ISqrt(mid, hi, n) ELSE ISqrt(lo, mid - 1, n)

\* std::sqrt of a mantissa, correct to 1 / SqrtScale
SqrtMantissa(p) ==
  LET n == (p[1] \div p[2]) * SqrtScale * SqrtScale
             + ((p[1] % p[2]) * SqrtScale * SqrtScale) \div p[2]
  IN  Rational(ISqrt(0, 20000, n), SqrtScale)

\* std::sqrt: sqrt(0) = 0, sqrt(+inf) = +inf
FloatSqrt(f) ==
  IF f.m[2] = 0 THEN FloatInf
  ELSE IF f.m[1] = 0 THEN FloatZero
  ELSE [m |-> SqrtMantissa(f.m), e |-> f.e \div 2]

\* Vec<T, D>::magnitudeSquared() in Promote<T>, vector2.h:763-766,
\* vector3.h:830-833, vector4.h:850-853
FloatMagnitudeSquared(v) ==
  FloatPlus(FloatPlus(FloatTimes(v.x, v.x), FloatTimes(v.y, v.y)),
            FloatPlus(FloatTimes(v.z, v.z), FloatTimes(v.w, v.w)))

\* Vec<T, D>::magnitude(), vector2.h:758-761, vector3.h:825-828,
\* vector4.h:845-848
magnitude(v) == FloatSqrt(FloatMagnitudeSquared(v))

\* a vector of kind T with components c * 10^e as a vector of doubles
AsFloats(v, e) == [f \in {"x", "y", "z", "w"} |-> Float(v[f], e)]


\* the division done whether or not the magnitude is zero
normalizeUnchecked(v) ==
  LET denominator == magnitude(v)
  IN  [divided |-> TRUE,
       value |-> [f \in {"x", "y", "z", "w"} |-> FloatOver(v[f], denominator)]]

\* Vec<T, D>::normalize() for a floating T, vector2.h:786-793,
\* vector3.h:853-860, vector4.h:873-880
normalize(v) ==
  LET denominator == magnitude(v)
  IN  IF denominator # FloatZero
        THEN [divided |-> TRUE,
              value |-> [f \in {"x", "y", "z", "w"} |->
                           FloatOver(v[f], denominator)]]
        ELSE [divided |-> FALSE, value |-> v]

\* static_cast<int>(denominator) of a finite double with decimal exponent 0
TruncateToInt(f) == TruncDiv(f.m[1], f.m[2])

\* Vec<int, D>::normalize(): operator/=(T scalar) receives the magnitude
\* converted to int and divides the components as integers
normalizeInt(v) ==
  LET denominator == magnitude(AsFloats(v, 0))
  IN  IF denominator # FloatZero
        THEN [divided |-> TRUE,
              value |-> [f \in {"x", "y", "z", "w"} |->
                           Float(TruncDiv(v[f], TruncateToInt(denominator)), 0)]]
        ELSE [divided |-> FALSE, value |-> AsFloats(v, 0)]

\* Vec<T, D>::normalized(), vector2.h:795-798, vector3.h:862-865,
\* vector4.h:882-885: Vec<Promote<T>>(*this).normalize()
normalized(v, e) == normalize(AsFloats(v, e))

\* a vector of ints, or of doubles with one decimal exponent
NormInit ==
  /\ nKind \in NormKinds
  /\ nDim \in Dimensions
  /\ nV \in NormVecs(nDim)
  /\ nExp \in (IF nKind = "int" THEN {0} ELSE Exponents)
  /\ nOp = "none"
  /\ nDivided = FALSE
  /\ nResult = AsFloats([x |-> 0, y |-> 0, z |-> 0, w |-> 0], 0)
  /\ nMagnitude = FloatZero

\* v.normalize(), then v.magnitude()
Normalize ==
  /\ nOp = "none"
  /\ LET r == IF nKind = "int" THEN normalizeInt(nV)
              ELSE normalize(AsFloats(nV, nExp))
     IN  /\ nDivided' = r.divided
         /\ nResult' = r.value
         /\ nMagnitude' = magnitude(r.value)
  /\ nOp' = "normalize"
  /\ UNCHANGED <<notNorm, nKind, nDim, nV, nExp>>

\* v.normalized().magnitude()
Normalized ==
  /\ nOp = "none"
  /\ LET r == normalized(nV, nExp)
     IN  /\ nDivided' = r.divided
         /\ nResult' = r.value
         /\ nMagnitude' = magnitude(r.value)
  /\ nOp' = "normalized"
  /\ UNCHANGED <<notNorm, nKind, nDim, nV, nExp>>

NormNext ==
  \/ Normalize
  \/ Normalized

InitNorm == NormInit /\ RandomInit /\ PromoteIdle /\ LineIdle /\ RectIdle /\ QueryIdle /\ CircleIdle /\ OrderIdle /\ ArithIdle /\ ConvIdle /\ ScalarIdle /\ ListIdle /\ SizeIdle /\ PlaneIdle /\ ProjectIdle /\ LerpIdle /\ TriangleIdle /\ CanonIdle /\ EmptyIdle

SpecNorm == InitNorm /\ [][NormNext]_vars

(***************************************************************************)
(* C18: if v is the zero vector, normalize() and normalized() perform no   *)
(* division and leave it the zero vector (magnitude stays 0); otherwise    *)
(* v.normalized() has magnitude 1 within tolerance and points in the       *)
(* direction of v.                                                         *)
(***************************************************************************)
IsZeroVec(v) == \A f \in {"x", "y", "z", "w"} : v[f] = 0

Sign(n) == IF n > 0 THEN 1 ELSE IF n < 0 THEN -1 ELSE 0

\* |f - 1| <= 3 / SqrtScale
NearOne(f) ==
  /\ f.m[2] # 0
  /\ f.e = 0
  /\ RLeq(<<SqrtScale - 3, SqrtScale>>, f.m)
  /\ RLeq(f.m, <<SqrtScale + 3, SqrtScale>>)

\* r is v scaled by one positive factor
SameDirection(v, r) ==
  /\ \A f \in {"x", "y", "z", "w"} :
       r[f].m[2] # 0 /\ Sign(r[f].m[1]) = Sign(v[f])
  /\ \A f, g \in {"x", "y", "z", "w"} :
       /\ r[f].m[1] * r[g].m[2] * v[g] = r[g].m[1] * r[f].m[2] * v[f]
       /\ (v[f] # 0 /\ v[g] # 0) => r[f].e = r[g].e

C18_NormalizedIsUnitOrZero ==
  nOp # "none" =>
     /\ IsZeroVec(nV) =>
          /\ ~nDivided
          /\ nResult = AsFloats(nV, 0)
          /\ nMagnitude = FloatZero
     /\ (~IsZeroVec(nV) /\ nOp = "normalized") =>
          /\ NearOne(nMagnitude)
          /\ SameDirection(nV, nResult)


(***************************************************************************)
(* Converting constructors: Vec<T, D>::Vec(const Vec<U, D>&),              *)
(* vector2.h:350-352, vector3.h:346-351, vector4.h:328-334, and those of   *)
(* Size, Line, Rect and Triangle, which convert their members.  A scalar   *)
(* of any kind is a rational <<n, d>>; an object is the sequence of its    *)
(* scalars in declaration order.                                           *)
(***************************************************************************)
ConvKinds == {"int", "unsigned char", "float", "double"}

\* the bits of an unsigned char
CharBits == 8

\* values of each kind: small ones, a negative or fractional one, and for
\* int one beyond unsigned char and one beyond the precision of float.  No
\* floating value lies outside the range of an integral kind, where the
\* conversion would be undefined.
ConvValues(T) ==
  CASE T = "int" ->
         {<<n, 1>> : n \in (-1..MaxConvCoord) \cup {2^CharBits, 2^FloatDigits + 1}}
    [] T = "unsigned char" ->
         {<<n, 1>> : n \in (0..MaxConvCoord) \cup {2^CharBits - 1}}
    [] OTHER ->
         {<<n, 1>> : n \in 0..MaxConvCoord} \cup {<<-1, 2>>, <<3, 2>>}

\* the number of scalars of each value type: Vec2 (x, y), Vec3, Vec4,
\* Size2 (w, h), Size3, Line2 (a, b), Rect2 (origin, size), Triangle2 (a, b, c)
ScalarsOf(shape) ==
  CASE shape = "Vec2" -> 2 [] shape = "Vec3" -> 3 [] shape = "Vec4" -> 4
    [] shape = "Size2" -> 2 [] shape = "Size3" -> 3
    [] shape = "Line2" -> 4 [] shape = "Rect2" -> 4 [] shape = "Triangle2" -> 6

ConvShapes ==
  {"Vec2", "Vec3", "Vec4", "Size2", "Size3", "Line2", "Rect2", "Triangle2"}

\* static_cast<U>(value): to an integral kind the fraction is dropped and an
\* unsigned char keeps the low bits; to float the value is rounded to 24
\* significant bits; double holds every value of the model exactly
StaticCast(U, p) ==
  CASE U = "int" -> <<TruncDiv(p[1], p[2]), 1>>
    [] U = "unsigned char" -> <<TruncDiv(p[1], p[2]) % (2^CharBits), 1>>
    [] U = "float" -> IF p[2] = 1 THEN <<RoundInteger(FloatDigits, p[1]), 1>> ELSE p
    [] U = "double" -> p

\* Vec<T, 2>::Vec(const Vec2<U>& other) : x(other.x), y(other.y),
\* vector2.h:350-352
Vec2Convert(T, other) == <<StaticCast(T, other[1]), StaticCast(T, other[2])>>

\* Vec<T, 3>::Vec(const Vec3<U>& other), vector3.h:346-351
Vec3Convert(T, other) ==
  <<StaticCast(T, other[1]), StaticCast(T, other[2]), StaticCast(T, other[3])>>

\* w initialised from other.z
Vec4ConvertWFromZ(T, other) ==
  <<StaticCast(T, other[1]), StaticCast(T, other[2]),
    StaticCast(T, other[3]), StaticCast(T, other[3])>>

\* Vec<T, 4>::Vec(const Vec4<U>& other), vector4.h:328-334
Vec4Convert(T, other) ==
  <<StaticCast(T, other[1]), StaticCast(T, other[2]),
    StaticCast(T, other[3]), StaticCast(T, other[4])>>

\* Size2<T>::Size(const Size2<U>& other) : vector(other.vector), size2.h:270-272
Size2Convert(T, other) == Vec2Convert(T, other)

\* Size<T, 3>::Size(const Size3<U>& other) : vector(other.vector), size3.h:287-289
Size3Convert(T, other) == Vec3Convert(T, other)

\* Line<T, 2>::Line(const Line2<U>& other) : a(other.a), b(other.b),
\* line2.h:182-184
Line2Convert(T, other) ==
  Vec2Convert(T, SubSeq(other, 1, 2)) \o Vec2Convert(T, SubSeq(other, 3, 4))

\* Rect<T, 2>::Rect(const Rect2<U>& other) : origin(other.origin),
\* size(other.size), rectangle2.h:283-287
Rect2Convert(T, other) ==
  Vec2Convert(T, SubSeq(other, 1, 2)) \o Size2Convert(T, SubSeq(other, 3, 4))

\* Triangle2<T>::Triangle(const Triangle2<U>& other) : a(other.a), b(other.b),
\* c(other.c), triangle2.h:168-173
Triangle2Convert(T, other) ==
  Vec2Convert(T, SubSeq(other, 1, 2)) \o Vec2Convert(T, SubSeq(other, 3, 4))
    \o Vec2Convert(T, SubSeq(other, 5, 6))

Convert(shape, T, other) ==
  CASE shape = "Vec2" -> Vec2Convert(T, other)
    [] shape = "Vec3" -> Vec3Convert(T, other)
    [] shape = "Vec4" -> Vec4Convert(T, other)
    [] shape = "Size2" -> Size2Convert(T, other)
    [] shape = "Size3" -> Size3Convert(T, other)
    [] shape = "Line2" -> Line2Convert(T, other)
    [] shape = "Rect2" -> Rect2Convert(T, other)
    [] shape = "Triangle2" -> Triangle2Convert(T, other)

\* an object of kind T and the kind U it is converted to
ConvInit ==
  /\ vT \in ConvKinds
  /\ vU \in ConvKinds
  /\ vShape \in ConvShapes
  /\ vValue = <<>>
  /\ vDone = FALSE
  /\ vConverted = <<>>
  /\ vBack = <<>>

\* whether "X<U> u(t)" for an X<T> t is a call of the program.  With U = T
\* it selects the copy constructor, which Rect declares as defaulted
\* (rectangle2.h:110) and which is thereby deleted: the union member
\* "Size2<T> size" (rectangle2.h:226-230) has a copy constructor of its own.
\* The other value types copy member by member.
Constructible(shape, T, U) == ~(shape = "Rect2" /\ T = U)

\* X<U> u(t); X<T> back(u);
ConvertAndBack ==
  /\ ~vDone
  /\ Constructible(vShape, vT, vU)
  /\ Constructible(vShape, vU, vT)
  /\ \E value \in [1..ScalarsOf(vShape) -> ConvValues(vT)] :
       /\ vValue' = value
       /\ vConverted' = Convert(vShape, vU, value)
       /\ vBack' = Convert(vShape, vT, Convert(vShape, vU, value))
  /\ vDone' = TRUE
  /\ UNCHANGED <<notConv, vT, vU, vShape>>

ConvNext == ConvertAndBack

InitConv == ConvInit /\ RandomInit /\ PromoteIdle /\ LineIdle /\ RectIdle /\ QueryIdle /\ CircleIdle /\ OrderIdle /\ ArithIdle /\ NormIdle /\ ScalarIdle /\ ListIdle /\ SizeIdle /\ PlaneIdle /\ ProjectIdle /\ LerpIdle /\ TriangleIdle /\ CanonIdle /\ EmptyIdle

SpecConv == InitConv /\ [][ConvNext]_vars


(***************************************************************************)
(* C19: converting a Vec/Size/Line/Rect/Triangle of scalar kind T to kind  *)
(* U converts each component independently as static_cast<U>(component);   *)
(* converting T to U and back to T returns the original value whenever     *)
(* every component is exactly representable in U, and may differ only in   *)
(* a component that is out of U's range or precision.                      *)
(***************************************************************************)
RECURSIVE OddPart(_)
OddPart(n) == IF n # 0 /\ n % 2 = 0 THEN OddPart(n \div 2) ELSE n

\* the value p is a value of kind U
Representable(U, p) ==
  CASE U = "int" -> p[2] = 1
    [] U = "unsigned char" -> p[2] = 1 /\ 0 <= p[1] /\ p[1] < 2^CharBits
    [] U = "float" -> OddPart(p[2]) = 1 /\ OddPart(Abs(p[1])) < 2^FloatDigits
    [] U = "double" -> OddPart(p[2]) = 1

C19_ConversionIsComponentwise ==
  vDone =>
     /\ Len(vConverted) = Len(vValue)
     /\ Len(vBack) = Len(vValue)
     /\ \A i \in 1..Len(vValue) :
          /\ vConverted[i] = StaticCast(vU, vValue[i])
          /\ Representable(vU, vConverted[i])
          /\ Representable(vU, vValue[i]) => vBack[i] = vValue[i]

\* int to double and back with a value beyond the precision of float, and
\* the same value lost through float
C19_Witness ==
  /\ vDone
  /\ vT = "int" /\ vShape = "Rect2"
  /\ vValue[1] = <<2^FloatDigits + 1, 1>> /\ vValue[4] = <<-1, 1>>
  /\ vValue[2] # vValue[3]
  /\ \/ vU = "double" /\ vBack = vValue
     \/ vU = "float" /\ vBack[1] # vValue[1] /\ vBack[4] = vValue[4]


(***************************************************************************)
(* Scalar arithmetic of Vec2, Vec3, Vec4, Size2 and Size3 with the scalar  *)
(* on the right and on the left: vector2.h:693-739, vector3.h:736-798,     *)
(* vector4.h:744-819, size2.h:559-588, size3.h:555-598.  Values are as in  *)
(* the vector arithmetic above.                                            *)
(***************************************************************************)
ScalarCoords == 0..MaxScalarCoord
ScalarSides == {"right", "left"}

\* operator+,-,*,/(const Vec2<T>& lhs, U rhs), vector2.h:693-715
Vec2ScalarRight(T, op, lhs, rhs) ==
  [x |-> PromotedOp(T, op, lhs.x, rhs),
   y |-> PromotedOp(T, op, lhs.y, rhs),
   z |-> FromInt(0), w |-> FromInt(0)]

\* operator+,-,*,/(T lhs, const Vec2<U>& rhs), vector2.h:717-739
Vec2ScalarLeft(T, op, lhs, rhs) ==
  [x |-> PromotedOp(T, op, lhs, rhs.x),
   y |-> PromotedOp(T, op, lhs, rhs.y),
   z |-> FromInt(0), w |-> FromInt(0)]

\* operator+,-,*,/(const Vec3<T>& lhs, U rhs), vector3.h:736-766
Vec3ScalarRight(T, op, lhs, rhs) ==
  [x |-> PromotedOp(T, op, lhs.x, rhs),
   y |-> PromotedOp(T, op, lhs.y, rhs),
   z |-> PromotedOp(T, op, lhs.z, rhs),
   w |-> FromInt(0)]

\* operator+,-,*(T lhs, const Vec3<U>& rhs), vector3.h:768-790, and
\* operator/(T lhs, const Vec3<U>& rhs), vector3.h:792-798:
\* "static_cast<V>(lhs) / rhs.x, static_cast<V>(lhs) * rhs.y,
\*  static_cast<V>(lhs) * rhs.z"
Vec3ScalarLeft(T, op, lhs, rhs) ==
  IF op = "/"
    THEN [x |-> PromotedOp(T, "/", lhs, rhs.x),
          y |-> PromotedOp(T, "*", lhs, rhs.y),
          z |-> PromotedOp(T, "*", lhs, rhs.z),
          w |-> FromInt(0)]
    ELSE [x |-> PromotedOp(T, op, lhs, rhs.x),
          y |-> PromotedOp(T, op, lhs, rhs.y),
          z |-> PromotedOp(T, op, lhs, rhs.z),
          w |-> FromInt(0)]

\* Vec<T, 4>::operator+,-,*,/(U scalar), vector4.h:744-782
Vec4ScalarRight(T, op, v, scalar) ==
  [x |-> PromotedOp(T, op, v.x, scalar),
   y |-> PromotedOp(T, op, v.y, scalar),
   z |-> PromotedOp(T, op, v.z, scalar),
   w |-> PromotedOp(T, op, v.w, scalar)]

\* operator+,-,*,/(T lhs, const Vec4<U>& rhs), vector4.h:784-819
Vec4ScalarLeft(T, op, lhs, rhs) ==
  [x |-> PromotedOp(T, op, lhs, rhs.x),
   y |-> PromotedOp(T, op, lhs, rhs.y),
   z |-> PromotedOp(T, op, lhs, rhs.z),
   w |-> PromotedOp(T, op, lhs, rhs.w)]

\* Size2<T>::operator+,-,*,/(U scalar), size2.h:559-581:
\* Size2<Promote<T, U>>(vector op scalar)
Size2ScalarRight(T, op, s, scalar) == Vec2ScalarRight(T, op, s, scalar)

\* operator*(U scalar, const Size2<T>& size), size2.h:583-586:
\* "return size * scalar"; Size2 declares no other operator with the scalar
\* on the left
Size2ScalarLeft(T, op, scalar, size) == Size2ScalarRight(T, op, size, scalar)

\* Size<T, 3>::operator+,-,*,/(U scalar), size3.h:555-577
Size3ScalarRight(T, op, s, scalar) == Vec3ScalarRight(T, op, s, scalar)

\* operator+,-,*,/(T lhs, const Size3<U>& rhs), size3.h:579-597:
\* Size3<Promote<T, U>>(lhs op rhs.vector)
Size3ScalarLeft(T, op, lhs, rhs) == Vec3ScalarLeft(T, op, lhs, rhs)

\* the operators the library declares for the shape with the scalar on the
\* given side
ScalarOpsOf(shape, dim, sd) ==
  IF shape = "Size" /\ dim = 2 /\ sd = "left" THEN {"*"} ELSE ArithOps

ScalarArith(shape, dim, sd, T, op, v, scalar) ==
  CASE shape = "Vec" /\ dim = 2 /\ sd = "right" -> Vec2ScalarRight(T, op, v, scalar)
    [] shape = "Vec" /\ dim = 2 /\ sd = "left" -> Vec2ScalarLeft(T, op, scalar, v)
    [] shape = "Vec" /\ dim = 3 /\ sd = "right" -> Vec3ScalarRight(T, op, v, scalar)
    [] shape = "Vec" /\ dim = 3 /\ sd = "left" -> Vec3ScalarLeft(T, op, scalar, v)
    [] shape = "Vec" /\ dim = 4 /\ sd = "right" -> Vec4ScalarRight(T, op, v, scalar)
    [] shape = "Vec" /\ dim = 4 /\ sd = "left" -> Vec4ScalarLeft(T, op, scalar, v)
    [] shape = "Size" /\ dim = 2 /\ sd = "right" -> Size2ScalarRight(T, op, v, scalar)
    [] shape = "Size" /\ dim = 2 /\ sd = "left" -> Size2ScalarLeft(T, op, scalar, v)
    [] shape = "Size" /\ dim = 3 /\ sd = "right" -> Size3ScalarRight(T, op, v, scalar)
    [] shape = "Size" /\ dim = 3 /\ sd = "left" -> Size3ScalarLeft(T, op, scalar, v)

\* a vector or size of some scalar kind
ScalarInit ==
  /\ sKind \in ArithKinds
  /\ \E shape \in Shapes : sShape = shape[1] /\ sDim = shape[2]
  /\ sV \in [x : ScalarCoords, y : ScalarCoords,
             z : IF sDim >= 3 THEN ScalarCoords ELSE {0},
             w : IF sDim >= 4 THEN ScalarCoords ELSE {0}]
  /\ sScalar = 0
  /\ sOp = "none"
  /\ sSide = "none"
  /\ sResult = [x |-> <<0, 1>>, y |-> <<0, 1>>, z |-> <<0, 1>>, w |-> <<0, 1>>]

\* v + s, v - s, v * s, v / s
ScalarOnRight ==
  /\ sOp = "none"
  /\ \E op \in ScalarOpsOf(sShape, sDim, "right"), scalar \in ScalarCoords :
       /\ sOp' = op
       /\ sScalar' = scalar
       /\ sResult' = ScalarArith(sShape, sDim, "right", sKind, op, sV, scalar)
  /\ sSide' = "right"
  /\ UNCHANGED <<notScalar, sKind, sShape, sDim, sV>>

\* s + v, s - v, s * v, s / v
ScalarOnLeft ==
  /\ sOp = "none"
  /\ \E op \in ScalarOpsOf(sShape, sDim, "left"), scalar \in ScalarCoords :
       /\ sOp' = op
       /\ sScalar' = scalar
       /\ sResult' = ScalarArith(sShape, sDim, "left", sKind, op, sV, scalar)
  /\ sSide' = "left"
  /\ UNCHANGED <<notScalar, sKind, sShape, sDim, sV>>

ScalarNext ==
  \/ ScalarOnRight
  \/ ScalarOnLeft

InitScalar == ScalarInit /\ RandomInit /\ PromoteIdle /\ LineIdle /\ RectIdle /\ QueryIdle /\ CircleIdle /\ OrderIdle /\ ArithIdle /\ NormIdle /\ ConvIdle /\ ListIdle /\ SizeIdle /\ PlaneIdle /\ ProjectIdle /\ LerpIdle /\ TriangleIdle /\ CanonIdle /\ EmptyIdle

SpecScalar == InitScalar /\ [][ScalarNext]_vars

(***************************************************************************)
(* C21: scalar arithmetic is component-wise in the promoted type for every *)
(* dimension: for each component c and each op in {+, -, *, /},            *)
(* (v op s).c = Promote<T>(v.c) op s, and with the scalar on the left      *)
(* (s op v).c = Promote<T>(s) op v.c, so s / v divides s by every          *)
(* component of v.                                                         *)
(***************************************************************************)
C21_ScalarArithmeticComponentwise ==
  sOp \in ArithOps =>
    \A f \in Fields(sDim) :
      LET l == IF sSide = "right" THEN sV[f] ELSE sScalar
          r == IF sSide = "right" THEN sScalar ELSE sV[f]
      IN  IF sOp = "/" /\ r = 0
            THEN sResult[f][2] = 0
            ELSE sResult[f] = Exact(sOp, l, r)


(***************************************************************************)
(* Construction from, assignment of and set() with a std::initializer_list *)
(* for Vec2/3/4, Size2/3, Line2/3 and Triangle2/3: vector2.h:343-346 and   *)
(* 513-521, size2.h:266 and 410-412, line2.h:170-178 and 206-226,          *)
(* triangle2.h:153-163 and 202-228, and the same in the 3-D and 4-D        *)
(* headers.  An object is the sequence of its scalar members in            *)
(* declaration order; a vertex vector is the sequence of its components.   *)
(***************************************************************************)
ListShapes ==
  {<<"Vec", 2>>, <<"Vec", 3>>, <<"Vec", 4>>, <<"Size", 2>>, <<"Size", 3>>,
   <<"Line", 2>>, <<"Line", 3>>, <<"Triangle", 2>>, <<"Triangle", 3>>}

\* the number of vertex vectors of a shape
Vertices(shape) ==
  CASE shape = "Line" -> 2
    [] shape = "Triangle" -> 3
    [] OTHER -> 1

\* the number N of scalar members
Scalars(shape, dim) == Vertices(shape) * dim

ListValues == 1..MaxListValue

\* the contents of an object, or of raw storage, before the operation
Storages(shape, dim) ==
  {[i \in 1..Scalars(shape, dim) |-> p] : p \in {0, MaxListValue + 1}}

ScalarLists(shape, dim) ==
  UNION {[1..k -> ListValues] : k \in 0..(Scalars(shape, dim) + 1)}

ListVectors(dim) ==
  {[i \in 1..dim |-> ((p + i) % MaxListValue) + 1] : p \in ListValues}

VectorLists(shape, dim) ==
  UNION {[1..k -> ListVectors(dim)] : k \in 0..(Vertices(shape) + 1)}

\* the scalars of a list of vectors, one vector after the other
RECURSIVE Flatten(_)
Flatten(vectors) ==
  IF vectors = <<>> THEN <<>>
  ELSE Head(vectors) \o Flatten(Tail(vectors))

\* "auto itr = std::begin(list); if (itr == std::end(list)) return;
\*  x = *itr; if (++itr == std::end(list)) return; y = *itr; ...":
\* the members are assigned in order until the list ends
AssignInOrder(object, list) ==
  [i \in 1..Len(object) |-> IF i <= Len(list) THEN list[i] ELSE object[i]]

\* Vec<T, D>::reset(), vector2.h:523-526: "*this = Vec()"
reset(v) == [i \in 1..Len(v) |-> 0]

\* set(list) without the reset
VecSetKeepsRest(v, list) == AssignInOrder(v, list)

\* Vec<T, D>::set(std::initializer_list<T> list), vector2.h:513-521,
\* vector3.h:533-543, vector4.h:509-521: reset(), then the members in order
VecSet(v, list) == AssignInOrder(reset(v), list)

\* Vec<T, D>::Vec(std::initializer_list<T> list), vector2.h:343-346:
\* "set(list)" on the members, which have no initialiser
VecList(storage, list) == VecSet(storage, list)

\* Size<T, D>::set(std::initializer_list<T> list), size2.h:410-412:
\* "vector.set(list)"
SizeSet(s, list) == VecSet(s, list)

\* Size<T, D>::Size(std::initializer_list<T> list) : vector(list), size2.h:266
SizeList(storage, list) == VecList(storage, list)

\* Line<T, D>::set(std::initializer_list<T> list), line2.h:206-217,
\* line3.h:200-215, and Triangle<T, D>::set(std::initializer_list<T> list),
\* triangle2.h:202-217, triangle3.h:219-240: the members in order, nothing
\* reset
LineSet(l, list) == AssignInOrder(l, list)
TriangleSet(t, list) == AssignInOrder(t, list)

\* Line<T, D>::set(std::initializer_list<Vec<T, D>> list), line2.h:219-226,
\* and Triangle<T, D>::set(std::initializer_list<Vec<T, D>>),
\* triangle2.h:219-228: "a = decltype(a)(*itr); ..." for each vertex until
\* the list ends
LineSetVectors(l, list) == AssignInOrder(l, Flatten(list))
TriangleSetVectors(t, list) == AssignInOrder(t, Flatten(list))

\* Line<T, D>::Line(std::initializer_list<T> list) : a(), b(), line2.h:170-173
\* and Triangle(std::initializer_list<T> list) : a(), b(), c(),
\* triangle2.h:153-156: "set(list)" on value-initialised vertices
LineList(storage, list) == LineSet(reset(storage), list)
TriangleList(storage, list) == TriangleSet(reset(storage), list)

\* Line(std::initializer_list<Vec<T, D>> list) : a(), b(), line2.h:175-178,
\* Triangle(std::initializer_list<Vec<T, D>> list), triangle2.h:158-163
LineVectors(storage, list) == LineSetVectors(reset(storage), list)
TriangleVectors(storage, list) == TriangleSetVectors(reset(storage), list)

\* object.set(list) for a list of scalars
SetList(shape, object, list) ==
  CASE shape = "Vec" -> VecSet(object, list)
    [] shape = "Size" -> SizeSet(object, list)
    [] shape = "Line" -> LineSet(object, list)
    [] shape = "Triangle" -> TriangleSet(object, list)

\* object.set(list) for a list of vertex vectors
SetVectors(shape, object, list) ==
  CASE shape = "Line" -> LineSetVectors(object, list)
    [] shape = "Triangle" -> TriangleSetVectors(object, list)

\* Shape(list) built in storage for a list of scalars
FromList(shape, storage, list) ==
  CASE shape = "Vec" -> VecList(storage, list)
    [] shape = "Size" -> SizeList(storage, list)
    [] shape = "Line" -> LineList(storage, list)
    [] shape = "Triangle" -> TriangleList(storage, list)

\* Shape(list) built in storage for a list of vertex vectors
FromVectors(shape, storage, list) ==
  CASE shape = "Line" -> LineVectors(storage, list)
    [] shape = "Triangle" -> TriangleVectors(storage, list)

\* an object, or the storage of one about to be constructed
ListInit ==
  /\ \E shape \in ListShapes : iShape = shape[1] /\ iDim = shape[2]
  /\ iObject \in Storages(iShape, iDim)
  /\ iOp = "none"
  /\ iList = <<>>
  /\ iVectors = <<>>
  /\ iFresh = iObject

\* Shape object{...} with scalars
ConstructFromList ==
  /\ iOp = "none"
  /\ \E list \in ScalarLists(iShape, iDim) :
       /\ iList' = list
       /\ iObject' = FromList(iShape, iObject, list)
       /\ iFresh' = FromList(iShape, iObject, list)
  /\ iOp' = "construct"
  /\ UNCHANGED <<notList, iShape, iDim, iVectors>>

\* Shape object{...} with vertex vectors
ConstructFromVectors ==
  /\ iOp = "none"
  /\ iShape \in {"Line", "Triangle"}
  /\ \E list \in VectorLists(iShape, iDim) :
       /\ iVectors' = list
       /\ iObject' = FromVectors(iShape, iObject, list)
       /\ iFresh' = FromVectors(iShape, iObject, list)
  /\ iOp' = "construct vectors"
  /\ UNCHANGED <<notList, iShape, iDim, iList>>

\* object = {...} with scalars: operator=(const Shape&) = default,
\* vector2.h:137, line2.h:81, triangle2.h:76, applied to the temporary
\* Shape(list), which is built in storage of its own
AssignList ==
  /\ iOp = "none"
  /\ \E list \in ScalarLists(iShape, iDim),
        storage \in Storages(iShape, iDim) :
       /\ iList' = list
       /\ iObject' = FromList(iShape, storage, list)
       /\ iFresh' = FromList(iShape, storage, list)
  /\ iOp' = "assign"
  /\ UNCHANGED <<notList, iShape, iDim, iVectors>>

\* object = {...} with vertex vectors
AssignVectors ==
  /\ iOp = "none"
  /\ iShape \in {"Line", "Triangle"}
  /\ \E list \in VectorLists(iShape, iDim),
        storage \in Storages(iShape, iDim) :
       /\ iVectors' = list
       /\ iObject' = FromVectors(iShape, storage, list)
       /\ iFresh' = FromVectors(iShape, storage, list)
  /\ iOp' = "assign vectors"
  /\ UNCHANGED <<notList, iShape, iDim, iList>>

\* object.set({...}) with scalars; iFresh is Shape{...} of the same list
SetFromList ==
  /\ iOp = "none"
  /\ \E list \in ScalarLists(iShape, iDim),
        storage \in Storages(iShape, iDim) :
       /\ iList' = list
       /\ iObject' = SetList(iShape, iObject, list)
       /\ iFresh' = FromList(iShape, storage, list)
  /\ iOp' = "set"
  /\ UNCHANGED <<notList, iShape, iDim, iVectors>>

\* object.set({...}) with vertex vectors
SetFromVectors ==
  /\ iOp = "none"
  /\ iShape \in {"Line", "Triangle"}
  /\ \E list \in VectorLists(iShape, iDim),
        storage \in Storages(iShape, iDim) :
       /\ iVectors' = list
       /\ iObject' = SetVectors(iShape, iObject, list)
       /\ iFresh' = FromVectors(iShape, storage, list)
  /\ iOp' = "set vectors"
  /\ UNCHANGED <<notList, iShape, iDim, iList>>

ListNext ==
  \/ ConstructFromList
  \/ ConstructFromVectors
  \/ AssignList
  \/ AssignVectors
  \/ SetFromList
  \/ SetFromVectors

InitList == ListInit /\ RandomInit /\ PromoteIdle /\ LineIdle /\ RectIdle /\ QueryIdle /\ CircleIdle /\ OrderIdle /\ ArithIdle /\ NormIdle /\ ConvIdle /\ ScalarIdle /\ SizeIdle /\ PlaneIdle /\ ProjectIdle /\ LerpIdle /\ TriangleIdle /\ CanonIdle /\ EmptyIdle

SpecList == InitList /\ [][ListNext]_vars

(***************************************************************************)
(* C22: a Vec, Size, Line or Triangle with N scalar components that is     *)
(* constructed from, or assigned, an initializer list of k >= 0 values has *)
(* its first min(k, N) components equal to the list values in order and    *)
(* all remaining components equal to zero; list elements beyond the N-th   *)
(* are ignored.  The same holds for lists of vertex vectors for Line and   *)
(* Triangle.                                                               *)
(***************************************************************************)
C22_ListFillsInOrderRestZero ==
  /\ iOp \in {"construct", "assign"} =>
       /\ Len(iObject) = Scalars(iShape, iDim)
       /\ \A i \in 1..Scalars(iShape, iDim) :
            iObject[i] = IF i <= Len(iList) THEN iList[i] ELSE 0
  /\ iOp \in {"construct vectors", "assign vectors"} =>
       /\ Len(iObject) = Scalars(iShape, iDim)
       /\ \A n \in 1..Vertices(iShape), c \in 1..iDim :
            iObject[(n - 1) * iDim + c] =
              IF n <= Len(iVectors) THEN iVectors[n][c] ELSE 0

\* a Triangle3 assigned one value more than it has members, and a Line3
\* constructed from a single vertex
C22_Witness ==
  \/ /\ iShape = "Triangle" /\ iDim = 3 /\ iOp = "assign"
     /\ Len(iList) = 10 /\ iList[1] # iList[2] /\ iObject[9] = iList[9]
  \/ /\ iShape = "Line" /\ iDim = 3 /\ iOp = "construct vectors"
     /\ Len(iVectors) = 1 /\ iObject[2] # 0 /\ iObject[4] = 0

(***************************************************************************)
(* C29: for Line and Triangle, calling set(initializer_list) on an object  *)
(* in any prior state gives the same value as constructing a fresh object  *)
(* from the same list (components not covered by the list become zero),    *)
(* exactly as Vec::set(initializer_list) does by resetting first.          *)
(***************************************************************************)
C29_SetEqualsFreshConstruction ==
  iOp \in {"set", "set vectors"} => iObject = iFresh


(***************************************************************************)
(* Size2<T>::aspect, area and diagonal, size2.h:647-660, with              *)
(* Vec<T, 2>::magnitude and magnitudeSquared, vector2.h:758-766.  A        *)
(* component is zW * 10^zExp; results are doubles as in the part above.    *)
(***************************************************************************)
SizeKinds == {"int", "unsigned char", "double"}
SizeCoords(T) ==
  IF T = "unsigned char" THEN 0..MaxSizeCoord
  ELSE (-MaxSizeCoord)..MaxSizeCoord

\* decimal exponents of the components: unsigned char holds 0..255
SizeExponents(T) == IF T = "unsigned char" THEN {0} ELSE {0, 4}

\* std::numeric_limits<int>::max()
IntMax == 2147483647

RECURSIVE Pow10(_)
Pow10(e) == IF e = 0 THEN 1 ELSE 10 * Pow10(e - 1)

\* whether the int product (l * 10^e) * (r * 10^e) is a value of int
ProductFitsInt(l, r, e) == Abs(l * r) <= IntMax \div Pow10(2 * e)

\* a * b of two ints above the least int as the builds compute it: the low
\* 32 bits of the product, in two's complement.  The product is formed in
\* 16-bit halves, hi * 2^16 + lo.
IntTimes(a, b) ==
  LET x == Abs(a)
      y == Abs(b)
      xh == x \div 2^16
      xl == x % 2^16
      yh == y \div 2^16
      yl == y % 2^16
      t == xl * (yl \div 2^8)
      u == xl * (yl % 2^8)
      low == ((t % 2^8) * 2^8) + (u % 2^16)
      lo == low % 2^16
      hi == (((xh * yl) % 2^16) + ((xl * yh) % 2^16) + (t \div 2^8)
               + (u \div 2^16) + (low \div 2^16)) % 2^16
      v == IF hi >= 2^15 THEN ((hi - 2^16) * 2^16) + lo ELSE (hi * 2^16) + lo
  IN  IF (a < 0) = (b < 0) \/ v = (-IntMax) - 1 THEN v ELSE -v

\* l * r for two values of kind T with decimal exponent e, as the double it
\* is converted to afterwards.  For a floating T the product is a double;
\* unsigned char operands are promoted to int and their product fits; an
\* int product that does not fit int is undefined, and the builds (-O0 and
\* -O2) go on with the product modulo 2^32, a multiple of 10^(2e) no more.
TimesInKind(T, l, r, e) ==
  IF T = "int" /\ ~ProductFitsInt(l, r, e)
    THEN {[m |-> Rational(IntTimes(l * Pow10(e), r * Pow10(e)),
                          Pow10(2 * e)),
           e |-> 2 * e]}
    ELSE {FloatTimes(Float(l, e), Float(r, e))}

\* Vec<T, 2>::magnitudeSquared(), vector2.h:763-766:
\* "static_cast<Promote<T>>(x) * x + y * y": x * x is done in Promote<T>,
\* y * y in T
Vec2MagnitudeSquared(T, x, y, e) ==
  {FloatPlus(FloatTimes(Float(x, e), Float(x, e)), yy) :
     yy \in TimesInKind(T, y, y, e)}

\* std::sqrt of a double: NaN for a negative argument
StdSqrt(f) ==
  IF f.m[2] # 0 /\ f.m[1] < 0 THEN FloatNaN ELSE FloatSqrt(f)

\* Vec<T, 2>::magnitude(), vector2.h:758-761
Vec2Magnitude(T, x, y, e) ==
  {StdSqrt(ms) : ms \in Vec2MagnitudeSquared(T, x, y, e)}

\* std::abs of a double
StdAbs(f) == [m |-> <<Abs(f.m[1]), f.m[2]>>, e |-> f.e]

\* Size2<T>::aspect(), size2.h:647-650:
\* "static_cast<Promote<T>>(width) / height"
aspect(T, width, height, e) == FloatOver(Float(width, e), Float(height, e))

\* Size2<T>::area(), size2.h:652-655:
\* "std::abs(static_cast<Promote<T>>(width) * height)"
area(T, width, height, e) ==
  StdAbs(FloatTimes(Float(width, e), Float(height, e)))

\* Size2<T>::diagonal(), size2.h:657-660: "vector.magnitude()"
diagonal(T, width, height, e) == Vec2Magnitude(T, width, height, e)

\* a size of some scalar kind
SizeInit ==
  /\ zKind \in SizeKinds
  /\ zW \in SizeCoords(zKind)
  /\ zH \in SizeCoords(zKind)
  /\ zExp \in SizeExponents(zKind)
  /\ zOp = "none"
  /\ zResult = FloatZero

Aspect ==
  /\ zOp = "none"
  /\ zH # 0
  /\ zOp' = "aspect"
  /\ zResult' = aspect(zKind, zW, zH, zExp)
  /\ UNCHANGED <<notSize, zKind, zW, zH, zExp>>

Area ==
  /\ zOp = "none"
  /\ zOp' = "area"
  /\ zResult' = area(zKind, zW, zH, zExp)
  /\ UNCHANGED <<notSize, zKind, zW, zH, zExp>>

Diagonal ==
  /\ zOp = "none"
  /\ zOp' = "diagonal"
  /\ zResult' \in diagonal(zKind, zW, zH, zExp)
  /\ UNCHANGED <<notSize, zKind, zW, zH, zExp>>

SizeNext ==
  \/ Aspect
  \/ Area
  \/ Diagonal

InitSize == SizeInit /\ RandomInit /\ PromoteIdle /\ LineIdle /\ RectIdle /\ QueryIdle /\ CircleIdle /\ OrderIdle /\ ArithIdle /\ NormIdle /\ ConvIdle /\ ScalarIdle /\ ListIdle /\ PlaneIdle /\ ProjectIdle /\ LerpIdle /\ TriangleIdle /\ CanonIdle /\ EmptyIdle

SpecSize == InitSize /\ [][SizeNext]_vars

(***************************************************************************)
(* C23: for every Size2 with non-zero height, aspect() equals              *)
(* width/height computed in the promoted (non-truncating) type, area()     *)
(* equals |width*height|, and diagonal() equals sqrt(width^2 + height^2);  *)
(* for Size(4,3) these are 4.0/3.0, 12 and 5, also when the scalar kind is *)
(* an integer.                                                             *)
(***************************************************************************)
\* r is the root of s to 1 / SqrtScale: r >= 0 and r^2 <= s < (r + 1/SqrtScale)^2
IsRootOf(r, s) ==
  /\ r[2] # 0 /\ r[1] >= 0
  /\ r[1] * r[1] <= s * r[2] * r[2]
  /\ s * r[2] * r[2] * SqrtScale * SqrtScale
       < (r[1] * SqrtScale + r[2]) * (r[1] * SqrtScale + r[2])

C23_SizeAttributes ==
  zH # 0 =>
    /\ zOp = "aspect" => zResult = [m |-> Rational(zW, zH), e |-> 0]
    /\ zOp = "area" => zResult = Float(Abs(zW * zH), 2 * zExp)
    /\ zOp = "diagonal" =>
         /\ zResult.e = zExp
         /\ IsRootOf(zResult.m, zW * zW + zH * zH)
    /\ (zW = 4 /\ zH = 3 /\ zExp = 0) =>
         /\ zOp = "aspect" => zResult.m = <<4, 3>>
         /\ zOp = "area" => zResult.m = <<12, 1>>
         /\ zOp = "diagonal" => zResult.m = <<5, 1>>


(***************************************************************************)
(* Plane<T>: constructors, set overloads, set_normal, set_distance and     *)
(* reset, plane.h:96-178.  normal_ and distance_ are doubles as in the     *)
(* magnitude part above (for Plane<int> whole numbers); the arguments are  *)
(* vectors of small integers.  Plane(T a, T b, T c, T d) and               *)
(* set(T a, T b, T c, T d), plane.h:99-101 and 130-136, call               *)
(* Vec3::length(), which Vec3 does not declare, so they cannot be          *)
(* instantiated and are no operations of the program.                      *)
(***************************************************************************)
PlaneKinds == {"int", "double"}
PlaneNormals ==
  [x : 0..MaxPlaneCoord, y : 0..MaxPlaneCoord, z : 0..MaxPlaneCoord, w : {0}]
PlanePoints3 == [x : {0, 1}, y : {0, 1}, z : {0, 1}, w : {0}]
PlaneOrigins == {p \in PlanePoints3 : p.x = p.y /\ p.y = p.z}
PlaneDistances == {0, 1}

\* Vec<T, 3>::empty(), vector3.h:187: "!x && !y && !z"
Vec3Empty(v) == v.x = 0 /\ v.y = 0 /\ v.z = 0

\* operator-(const Vec3<T>&, const Vec3<U>&), vector3.h:678-684
Vec3Minus(lhs, rhs) ==
  [x |-> lhs.x - rhs.x, y |-> lhs.y - rhs.y, z |-> lhs.z - rhs.z, w |-> 0]

\* Vec<T, 3>::cross(const Vec3<U>& other), vector3.h:904-911
cross(v, other) ==
  [x |-> v.y * other.z - v.z * other.y,
   y |-> v.z * other.x - v.x * other.z,
   z |-> v.x * other.y - v.y * other.x,
   w |-> 0]

\* static_cast<T>(f) of a finite double with decimal exponent 0
StoreInKind(T, f) == IF T = "int" THEN Float(TruncateToInt(f), 0) ELSE f

\* Vec<T, 3>::Vec(const Vec3<U>& other), vector3.h:346-351
StoreVec3(T, v) ==
  [f \in {"x", "y", "z", "w"} |-> StoreInKind(T, v[f])]

\* Vec<T, 3>::dot(const Vec3<U>& other), vector3.h:898-902
dot(v, other) ==
  FloatPlus(FloatPlus(FloatTimes(v.x, Float(other.x, 0)),
                      FloatTimes(v.y, Float(other.y, 0))),
            FloatTimes(v.z, Float(other.z, 0)))

\* Plane<T>::Plane(), plane.h:96-97, and what reset() assigns
DefaultPlane ==
  [normal |-> AsFloats([x |-> 0, y |-> 0, z |-> 0, w |-> 0], 0),
   distance |-> FloatZero]

\* Plane<T>::set(const Vector3<T>& normal, T distance), plane.h:138-143
PlaneSet(T, plane, normal, distance) ==
  IF Vec3Empty(normal)
    THEN [status |-> "assert_failed", plane |-> plane]
    ELSE [status |-> "ok",
          plane |-> [normal |-> StoreVec3(T, normalized(normal, 0).value),
                     distance |-> Float(distance, 0)]]

\* Plane<T>::set(const Vector3<T>& point, const Vector3<T>& normal),
\* plane.h:145-150
PlaneSetPoint(T, plane, point, normal) ==
  IF Vec3Empty(normal)
    THEN [status |-> "assert_failed", plane |-> plane]
    ELSE LET normal_ == StoreVec3(T, normalized(normal, 0).value)
         IN  [status |-> "ok",
              plane |-> [normal |-> normal_,
                         distance |-> StoreInKind(T, dot(normal_, point))]]

\* Plane<T>::set(const Vector3<T>& p1, const Vector3<T>& p2,
\* const Vector3<T>& p3), plane.h:152-160
PlaneSetPoints(T, plane, p1, p2, p3) ==
  PlaneSetPoint(T, plane, p1, cross(Vec3Minus(p2, p1), Vec3Minus(p3, p1)))

\* Plane<T>::set_normal(const Vector3<T>& value), plane.h:169-173
set_normal(plane, value) ==
  IF Vec3Empty(value)
    THEN [status |-> "assert_failed", plane |-> plane]
    ELSE [status |-> "ok",
          plane |-> [normal |-> AsFloats(value, 0),
                     distance |-> plane.distance]]

\* Plane<T>::set_distance(T value), plane.h:175-178
set_distance(plane, value) ==
  [status |-> "ok",
   plane |-> [normal |-> plane.normal, distance |-> Float(value, 0)]]

\* three points on one line: every 2 x 2 minor of the two difference vectors
\* is zero
Collinear(p1, p2, p3) ==
  LET u == [f \in {"x", "y", "z"} |-> p2[f] - p1[f]]
      v == [f \in {"x", "y", "z"} |-> p3[f] - p1[f]]
  IN  \A f, g \in {"x", "y", "z"} : u[f] * v[g] = u[g] * v[f]

\* the plane held in the variables
ThePlane == [normal |-> hNormal, distance |-> hDistance]

\* a default-constructed plane
PlaneInit ==
  /\ hKind \in PlaneKinds
  /\ hNormal = DefaultPlane.normal
  /\ hDistance = DefaultPlane.distance
  /\ hOp = "none"
  /\ hStatus = "ok"
  /\ hZeroGiven = FALSE
  /\ hKept = TRUE

\* the first operation constructs the plane, the later ones call set on it
ConstructOrSet == IF hOp = "none" THEN "construct" ELSE "set"

\* Plane<T>(normal, distance), plane.h:104-106, or
\* plane.set(normal, distance); a failed assertion ends the program
SetNormalDistance ==
  /\ hStatus = "ok"
  /\ \E normal \in PlaneNormals, distance \in PlaneDistances :
       LET outcome == PlaneSet(hKind, ThePlane, normal, distance)
       IN  /\ hOp' = ConstructOrSet
           /\ hZeroGiven' = Vec3Empty(normal)
           /\ hStatus' = outcome.status
           /\ hNormal' = outcome.plane.normal
           /\ hDistance' = outcome.plane.distance
  /\ hKept' = (hNormal' = hNormal)
  /\ UNCHANGED <<notPlane, hKind>>

\* Plane<T>(point, normal), plane.h:109-112, or
\* plane.set(point, normal)
SetPointNormal ==
  /\ hStatus = "ok"
  /\ \E point \in PlaneOrigins, normal \in PlaneNormals :
       LET outcome == PlaneSetPoint(hKind, ThePlane, point, normal)
       IN  /\ hOp' = ConstructOrSet
           /\ hZeroGiven' = Vec3Empty(normal)
           /\ hStatus' = outcome.status
           /\ hNormal' = outcome.plane.normal
           /\ hDistance' = outcome.plane.distance
  /\ hKept' = (hNormal' = hNormal)
  /\ UNCHANGED <<notPlane, hKind>>

\* Plane<T>(p1, p2, p3), plane.h:115-120, or plane.set(p1, p2, p3)
SetThreePoints ==
  /\ hStatus = "ok"
  /\ \E p1 \in PlaneOrigins, p2, p3 \in PlanePoints3 :
       LET outcome == PlaneSetPoints(hKind, ThePlane, p1, p2, p3)
       IN  /\ hOp' = ConstructOrSet
           /\ hZeroGiven' = Collinear(p1, p2, p3)
           /\ hStatus' = outcome.status
           /\ hNormal' = outcome.plane.normal
           /\ hDistance' = outcome.plane.distance
  /\ hKept' = (hNormal' = hNormal)
  /\ UNCHANGED <<notPlane, hKind>>

\* plane.set_normal(value)
SetNormal ==
  /\ hStatus = "ok"
  /\ \E value \in PlaneNormals :
       LET outcome == set_normal(ThePlane, value)
       IN  /\ hZeroGiven' = Vec3Empty(value)
           /\ hStatus' = outcome.status
           /\ hNormal' = outcome.plane.normal
           /\ hDistance' = outcome.plane.distance
  /\ hOp' = "set_normal"
  /\ hKept' = (hNormal' = hNormal)
  /\ UNCHANGED <<notPlane, hKind>>

\* plane.set_distance(value)
SetDistance ==
  /\ hStatus = "ok"
  /\ \E value \in PlaneDistances :
       LET outcome == set_distance(ThePlane, value)
       IN  /\ hStatus' = outcome.status
           /\ hNormal' = outcome.plane.normal
           /\ hDistance' = outcome.plane.distance
  /\ hOp' = "set_distance"
  /\ hZeroGiven' = FALSE
  /\ hKept' = (hNormal' = hNormal)
  /\ UNCHANGED <<notPlane, hKind>>

\* plane.reset(), plane.h:162-165: "*this = Plane<T>()"
PlaneReset ==
  /\ hStatus = "ok"
  /\ hOp' = "reset"
  /\ hStatus' = "ok"
  /\ hNormal' = DefaultPlane.normal
  /\ hDistance' = DefaultPlane.distance
  /\ hZeroGiven' = FALSE
  /\ hKept' = (hNormal' = hNormal)
  /\ UNCHANGED <<notPlane, hKind>>

PlaneNext ==
  \/ SetNormalDistance
  \/ SetPointNormal
  \/ SetThreePoints
  \/ SetNormal
  \/ SetDistance
  \/ PlaneReset

InitPlane == PlaneInit /\ RandomInit /\ PromoteIdle /\ LineIdle /\ RectIdle /\ QueryIdle /\ CircleIdle /\ OrderIdle /\ ArithIdle /\ NormIdle /\ ConvIdle /\ ScalarIdle /\ ListIdle /\ SizeIdle /\ ProjectIdle /\ LerpIdle /\ TriangleIdle /\ CanonIdle /\ EmptyIdle

SpecPlane == InitPlane /\ [][PlaneNext]_vars

(***************************************************************************)
(* C24: after any sequence of Plane constructors, set(...) overloads,      *)
(* set_normal, set_distance and reset, the stored normal is either the     *)
(* zero vector (default-constructed or reset plane) or a unit-length       *)
(* vector; and every constructor or set overload given a zero normal (or   *)
(* three collinear points) fails the non-zero-normal assertion without     *)
(* storing it.                                                             *)
(***************************************************************************)
IsZeroNormal(v) == \A f \in {"x", "y", "z"} : v[f] = FloatZero

C24_NormalIsZeroOrUnit ==
  /\ IsZeroNormal(hNormal) \/ NearOne(magnitude(hNormal))
  /\ (hOp \in {"construct", "set"} /\ hZeroGiven) =>
       (hStatus = "assert_failed" /\ hKept)


(***************************************************************************)
(* Line<T, 2>::project and Line<T, 3>::project, line2.h:328-343 and        *)
(* line3.h:306-321.  Points are vectors of small integers (z = 0 in two    *)
(* dimensions); the intermediate values, of kind Promote<T>, and the       *)
(* result are exact rationals.                                             *)
(***************************************************************************)
ProjectKinds == {"int", "double"}
ProjectCoords == 0..MaxProjectCoord
ProjectPoints(dim) ==
  [x : ProjectCoords, y : ProjectCoords,
   z : IF dim = 3 THEN ProjectCoords ELSE {0}]

\* static_cast<T>(p) of the rational p: an integral T truncates toward zero
CastToKind(T, p) ==
  IF is_integral(T) THEN FromInt(TruncDiv(p[1], p[2])) ELSE p

\* Line<T, D>::project(const Vec<U, D>& point), line2.h:328-343,
\* line3.h:306-321: "ab = b - a; magnitude = ab.magnitudeSquared();
\* if (!magnitude) return a; scale = (point - a).dot(ab) / magnitude;
\* if (scale <= 0) return a; else if (scale >= 1) return b;
\* return a + ab * scale", the returned Vec<Promote<T>, D> converted to the
\* return type Vec<T, D>
project(T, a, b, point) ==
  LET ab == [f \in {"x", "y", "z"} |-> b[f] - a[f]]
      magnitude_ == ab.x * ab.x + ab.y * ab.y + ab.z * ab.z
      scale == Rational((point.x - a.x) * ab.x + (point.y - a.y) * ab.y
                          + (point.z - a.z) * ab.z,
                        magnitude_)
  IN  IF magnitude_ = 0 THEN [f \in {"x", "y", "z"} |-> FromInt(a[f])]
      ELSE IF RLeq(scale, FromInt(0))
             THEN [f \in {"x", "y", "z"} |-> FromInt(a[f])]
      ELSE IF RLeq(FromInt(1), scale)
             THEN [f \in {"x", "y", "z"} |-> FromInt(b[f])]
      ELSE [f \in {"x", "y", "z"} |->
              CastToKind(T, RAdd(FromInt(a[f]), RMul(FromInt(ab[f]), scale)))]

\* a segment and a point of one scalar kind
ProjectInit ==
  /\ jKind \in ProjectKinds
  /\ jDim \in {2, 3}
  /\ jA \in ProjectPoints(jDim)
  /\ jB \in ProjectPoints(jDim)
  /\ jP \in ProjectPoints(jDim)
  /\ jDone = FALSE
  /\ jResult = [x |-> <<0, 1>>, y |-> <<0, 1>>, z |-> <<0, 1>>]

\* Line<T, D>(a, b).project(p)
Project ==
  /\ ~jDone
  /\ jDone' = TRUE
  /\ jResult' = project(jKind, jA, jB, jP)
  /\ UNCHANGED <<notProject, jKind, jDim, jA, jB, jP>>

ProjectNext == Project

InitProject == ProjectInit /\ RandomInit /\ PromoteIdle /\ LineIdle /\ RectIdle /\ QueryIdle /\ CircleIdle /\ OrderIdle /\ ArithIdle /\ NormIdle /\ ConvIdle /\ ScalarIdle /\ ListIdle /\ SizeIdle /\ PlaneIdle /\ LerpIdle /\ TriangleIdle /\ CanonIdle /\ EmptyIdle

SpecProject == InitProject /\ [][ProjectNext]_vars

(***************************************************************************)
(* C25: Line::project(p) (2-D and 3-D) returns a point of the closed       *)
(* segment [a,b]: it returns a when the segment has zero length or the     *)
(* projection parameter (p-a).(b-a)/|b-a|^2 is <= 0, returns b when the    *)
(* parameter is >= 1, and otherwise returns a + (b-a)*parameter.           *)
(***************************************************************************)
\* (p-a).(b-a) and |b-a|^2
ProjectionDot == (jP.x - jA.x) * (jB.x - jA.x) + (jP.y - jA.y) * (jB.y - jA.y)
                   + (jP.z - jA.z) * (jB.z - jA.z)
SegmentLengthSquared ==
  (jB.x - jA.x) * (jB.x - jA.x) + (jB.y - jA.y) * (jB.y - jA.y)
    + (jB.z - jA.z) * (jB.z - jA.z)

C25_ProjectIsClampedProjection ==
  jDone =>
    \A f \in {"x", "y", "z"} :
      /\ jResult[f][2] > 0
      /\ IF SegmentLengthSquared = 0 \/ ProjectionDot <= 0
           THEN jResult[f] = <<jA[f], 1>>
         ELSE IF ProjectionDot >= SegmentLengthSquared
           THEN jResult[f] = <<jB[f], 1>>
         ELSE jResult[f][1] * SegmentLengthSquared
                = jResult[f][2] * (jA[f] * SegmentLengthSquared
                                     + (jB[f] - jA[f]) * ProjectionDot)


(***************************************************************************)
(* Vec<T, D>::lerp, vector2.h:844-850, vector3.h:915-922,                  *)
(* vector4.h:934-942.  The components are small integers and the factor a  *)
(* small rational.  A value of the computation is hi * 2^32 + lo with      *)
(* rationals hi and lo, lo small: a value of unsigned int that wrapped     *)
(* around below zero has hi = 1 and a negative lo.                         *)
(***************************************************************************)
LerpKinds == {"int", "unsigned int", "unsigned char", "double"}
LerpFactorKinds == {"int", "double"}
LerpCoords == 0..MaxLerpCoord
LerpVecs(dim) ==
  [x : LerpCoords, y : LerpCoords,
   z : IF dim >= 3 THEN LerpCoords ELSE {0},
   w : IF dim >= 4 THEN LerpCoords ELSE {0}]

\* whole factors, and for a floating factor also the midpoint
LerpFactors(V) ==
  {<<k, 1>> : k \in (-1)..MaxLerpFactor}
    \cup (IF V = "double" THEN {<<1, 2>>} ELSE {})

\* the value lo
Narrow(lo) == [hi |-> <<0, 1>>, lo |-> lo]

\* the small integer n as a value of unsigned int: n modulo 2^32
AsUnsigned(n) ==
  IF n < 0 THEN [hi |-> <<1, 1>>, lo |-> <<n, 1>>] ELSE Narrow(<<n, 1>>)

\* the type of "l op r" by the usual arithmetic conversions, for operands of
\* the kinds of the model: unsigned char is promoted to int
ArithmeticType(L, R) ==
  IF L = "double" \/ R = "double" THEN "double"
  ELSE IF L = "unsigned int" \/ R = "unsigned int" THEN "unsigned int"
  ELSE "int"

\* "x + (other.x - x) * factor", vector2.h:848: each operation is done in
\* the type of its operands, and the sum is converted to Promote<T, U>
LerpComponent(T, V, x, other, factor) ==
  LET D == ArithmeticType(T, T)
      P == ArithmeticType(D, V)
      S == ArithmeticType(T, P)
      difference == IF D = "unsigned int" THEN AsUnsigned(other - x)
                    ELSE Narrow(<<other - x, 1>>)
      product == IF P = "unsigned int"
                   THEN AsUnsigned((other - x) * factor[1])
                   ELSE [hi |-> RMul(difference.hi, factor),
                         lo |-> RMul(difference.lo, factor)]
  IN  IF S = "unsigned int"
        THEN AsUnsigned(x + (other - x) * factor[1])
        ELSE [hi |-> product.hi, lo |-> RAdd(<<x, 1>>, product.lo)]

\* Vec<T, D>::lerp(const Vec<U, D>& other, V factor), vector2.h:844-850,
\* vector3.h:915-922, vector4.h:934-942
lerp(dim, T, V, v, other, factor) ==
  [f \in {"x", "y", "z", "w"} |->
     IF f \in Fields(dim) THEN LerpComponent(T, V, v[f], other[f], factor)
     ELSE Narrow(<<0, 1>>)]

\* two vectors of one scalar kind
LerpInit ==
  /\ eKind \in LerpKinds
  /\ eDim \in Dimensions
  /\ eA \in LerpVecs(eDim)
  /\ eB \in LerpVecs(eDim)
  /\ eFactorKind = "int"
  /\ eFactor = <<0, 1>>
  /\ eDone = FALSE
  /\ eResult = [f \in {"x", "y", "z", "w"} |-> Narrow(<<0, 1>>)]

\* a.lerp(b, factor)
Lerp ==
  /\ ~eDone
  /\ \E V \in LerpFactorKinds :
       \E factor \in LerpFactors(V) :
         /\ eFactorKind' = V
         /\ eFactor' = factor
         /\ eResult' = lerp(eDim, eKind, V, eA, eB, factor)
  /\ eDone' = TRUE
  /\ UNCHANGED <<notLerp, eKind, eDim, eA, eB>>

LerpNext == Lerp

InitLerp == LerpInit /\ RandomInit /\ PromoteIdle /\ LineIdle /\ RectIdle /\ QueryIdle /\ CircleIdle /\ OrderIdle /\ ArithIdle /\ NormIdle /\ ConvIdle /\ ScalarIdle /\ ListIdle /\ SizeIdle /\ PlaneIdle /\ ProjectIdle /\ TriangleIdle /\ CanonIdle /\ EmptyIdle

SpecLerp == InitLerp /\ [][LerpNext]_vars

(***************************************************************************)
(* C26: for all vectors a, b of any scalar kind (signed, unsigned or       *)
(* floating) a.lerp(b, 0) == a and a.lerp(b, 1) == b component-wise, also  *)
(* when some b.c < a.c; factors outside [0,1] are not clamped and          *)
(* extrapolate linearly.                                                   *)
(***************************************************************************)
C26_LerpEndpointsAndLinear ==
  eDone =>
    \A f \in Fields(eDim) :
      /\ eResult[f].hi = <<0, 1>>
      /\ eFactor = <<0, 1>> => eResult[f].lo = <<eA[f], 1>>
      /\ eFactor = <<1, 1>> => eResult[f].lo = <<eB[f], 1>>
      /\ eResult[f].lo[1] * eFactor[2]
           = eResult[f].lo[2] * (eA[f] * eFactor[2]
                                   + (eB[f] - eA[f]) * eFactor[1])


(***************************************************************************)
(* Triangle<T, 3>::area and perimeter, triangle3.h:309-319.  The vertices  *)
(* are vectors of small integers; the results are doubles as in the        *)
(* magnitude part above.                                                    *)
(***************************************************************************)
TriangleKinds == {"int", "double"}
TriangleOrigins == [x : {0, 1}, y : {0}, z : {0}, w : {0}]
TrianglePoints ==
  [x : 0..MaxTriangleCoord, y : 0..MaxTriangleCoord, z : {0, 1}, w : {0}]

\* Vec<T, 3>::distanceSquared(const Vec3<U>& other), vector3.h:892-895:
\* "(*this - other).magnitudeSquared()"
Vec3DistanceSquared(v, other) ==
  FloatMagnitudeSquared(AsFloats(Vec3Minus(v, other), 0))

\* Triangle<T, 3>::area(), triangle3.h:309-312:
\* "(b - a).cross(c - a).magnitude() / 2"
Triangle3Area(a, b, c) ==
  FloatOver(magnitude(AsFloats(cross(Vec3Minus(b, a), Vec3Minus(c, a)), 0)),
            Float(2, 0))

\* Triangle<T, 3>::perimeter(), triangle3.h:314-319
Triangle3Perimeter(a, b, c) ==
  StdSqrt(FloatPlus(FloatPlus(Vec3DistanceSquared(a, b),
                              Vec3DistanceSquared(b, c)),
                    Vec3DistanceSquared(c, a)))

TriangleInit ==
  /\ tKind \in TriangleKinds
  /\ tA \in TriangleOrigins
  /\ tB \in TrianglePoints
  /\ tC \in TrianglePoints
  /\ tOp = "none"
  /\ tResult = FloatZero

TriangleArea ==
  /\ tOp = "none"
  /\ tOp' = "area"
  /\ tResult' = Triangle3Area(tA, tB, tC)
  /\ UNCHANGED <<notTriangle, tKind, tA, tB, tC>>

TrianglePerimeter ==
  /\ tOp = "none"
  /\ tOp' = "perimeter"
  /\ tResult' = Triangle3Perimeter(tA, tB, tC)
  /\ UNCHANGED <<notTriangle, tKind, tA, tB, tC>>

TriangleNext ==
  \/ TriangleArea
  \/ TrianglePerimeter

InitTriangle == TriangleInit /\ RandomInit /\ PromoteIdle /\ LineIdle /\ RectIdle /\ QueryIdle /\ CircleIdle /\ OrderIdle /\ ArithIdle /\ NormIdle /\ ConvIdle /\ ScalarIdle /\ ListIdle /\ SizeIdle /\ PlaneIdle /\ ProjectIdle /\ LerpIdle /\ CanonIdle /\ EmptyIdle

SpecTriangle == InitTriangle /\ [][TriangleNext]_vars

(***************************************************************************)
(* C27: Triangle3::perimeter() equals the sum of the three side lengths    *)
(* |ab| + |bc| + |ca| (12 for a 3-4-5 right triangle), and                 *)
(* Triangle3::area() equals half the magnitude of (b-a) x (c-a).           *)
(***************************************************************************)
\* the squared length of the integer vector v
LengthSquared(v) == v.x * v.x + v.y * v.y + v.z * v.z

\* the root of the whole number s in units of 1 / SqrtScale, rounded down
RootUnits(s) == ISqrt(0, 20000, s * SqrtScale * SqrtScale)

\* the finite value f in units of 1 / SqrtScale, rounded down
Units(f) == (f.m[1] * SqrtScale) \div f.m[2]

IsRightTriangle345 ==
  /\ LengthSquared(Vec3Minus(tB, tA)) = 9
  /\ LengthSquared(Vec3Minus(tC, tB)) = 25
  /\ LengthSquared(Vec3Minus(tA, tC)) = 16

C27_Triangle3PerimeterAndArea ==
  /\ tOp = "perimeter" =>
       LET sides == RootUnits(LengthSquared(Vec3Minus(tB, tA)))
                      + RootUnits(LengthSquared(Vec3Minus(tC, tB)))
                      + RootUnits(LengthSquared(Vec3Minus(tA, tC)))
       IN  /\ tResult.m[2] # 0 /\ tResult.e = 0
           /\ Units(tResult) \in sides..(sides + 3)
           /\ IsRightTriangle345 => tResult.m = <<12, 1>>
  /\ tOp = "area" =>
       LET n == cross(Vec3Minus(tB, tA), Vec3Minus(tC, tA))
           twice == FloatTimes(tResult, Float(2, 0))
       IN  /\ tResult.m[2] # 0 /\ tResult.e = 0
           /\ Units(twice) = RootUnits(LengthSquared(n))
           /\ IsRightTriangle345 => tResult.m = <<6, 1>>


(***************************************************************************)
(* Rect<T, 2>::canonicalize and the coordinates and tests that read the    *)
(* rect, rectangle2.h:468-496, 558-569 and 713-725, on rects with a width  *)
(* or height of 2^25 or -2^25.                                             *)
(***************************************************************************)
CanonKinds == {"int", "float"}
CanonCoords == 0..MaxCanonCoord
CanonSizes ==
  ((-MaxCanonSize)..MaxCanonSize)
    \cup {-(2^(FloatDigits + 1)), 2^(FloatDigits + 1)}
CanonRects ==
  [x : CanonCoords, y : CanonCoords, width : CanonSizes, height : CanonSizes]
CanonPoints == [x : CanonCoords, y : CanonCoords]
CanonOthers ==
  [x : CanonCoords, y : CanonCoords, width : {0, 1}, height : {0, 1}]

\* any rect of kind T, canonical or not
CanonInit ==
  /\ kKind \in CanonKinds
  /\ kRect \in CanonRects
  /\ kPrev = kRect
  /\ kDone = FALSE

\* r.canonicalize()
CanonicalizeInKind ==
  /\ ~kDone
  /\ kDone' = TRUE
  /\ kPrev' = kRect
  /\ kRect' = canonicalize(kKind, kRect)
  /\ UNCHANGED <<notCanon, kKind>>

CanonNext ==
  \/ CanonicalizeInKind

InitCanon == CanonInit /\ RandomInit /\ PromoteIdle /\ LineIdle /\ RectIdle /\ QueryIdle /\ CircleIdle /\ OrderIdle /\ ArithIdle /\ NormIdle /\ ConvIdle /\ ScalarIdle /\ ListIdle /\ SizeIdle /\ PlaneIdle /\ ProjectIdle /\ LerpIdle /\ TriangleIdle /\ EmptyIdle

SpecCanon == InitCanon /\ [][CanonNext]_vars

\* the coordinates of the two rects of kind T are the same, and so are the
\* answers of contains and intersects
SameRegion(T, before, after) ==
  /\ minX(T, after) = minX(T, before)
  /\ maxX(T, after) = maxX(T, before)
  /\ minY(T, after) = minY(T, before)
  /\ maxY(T, after) = maxY(T, before)
  /\ \A p \in CanonPoints :
       contains(T, after, p) = contains(T, before, p)
  /\ \A o \in CanonOthers :
       intersects(T, after, o) = intersects(T, before, o)

(***************************************************************************)
(* C28 as stated: canonicalize() changes only the representation, not the  *)
(* region: minX(), maxX(), minY() and maxY(), and the answers of           *)
(* contains() and intersects() for every point and rect, are the same      *)
(* before and after the call.                                              *)
(***************************************************************************)
C28_CanonicalizeKeepsRegion ==
  kDone => SameRegion(kKind, kPrev, kRect)

(***************************************************************************)
(* C28, amended: canonicalize() of a rect whose far edges x + width and    *)
(* y + height are computed exactly in T (every rect of an integral T away  *)
(* from the limits of T) leaves minX(), maxX(), minY(), maxY() and the     *)
(* answers of contains() and intersects() as they were.                    *)
(***************************************************************************)
C28_CanonicalizeKeepsExactRegion ==
  (kDone /\ EdgesAreExact(kKind, kPrev)) => SameRegion(kKind, kPrev, kRect)

\* a float rect of width -2^25 and negative height, with exact far edges,
\* was canonicalized and its fields changed
C28_Witness ==
  /\ kDone
  /\ kKind = "float"
  /\ kPrev.width = -(2^(FloatDigits + 1))
  /\ kPrev.height < 0
  /\ EdgesAreExact(kKind, kPrev)
  /\ kRect.x # kPrev.x /\ kRect.y # kPrev.y


(***************************************************************************)
(* Size<T, 3>::empty(), size3.h:204, and Vec<T, 3>::empty() of the vector  *)
(* that shares the size's storage, size3.h:232-235.  The fields are small  *)
(* whole numbers of kind T.                                                *)
(***************************************************************************)
EmptyKinds == {"int", "double"}
EmptyCoords == (-MaxEmptyCoord)..MaxEmptyCoord
Sizes3 == [width : EmptyCoords, height : EmptyCoords, depth : EmptyCoords]

\* Size<T, 3>::vector, size3.h:232-235: the same three scalars as x, y, z
Size3Vector(s) == [x |-> s.width, y |-> s.height, z |-> s.depth, w |-> 0]

\* Size<T, 3>::empty(), size3.h:204: "!width && !height"
Size3Empty(s) == s.width = 0 /\ s.height = 0

EmptyInit ==
  /\ mKind \in EmptyKinds
  /\ mSize \in Sizes3
  /\ mDone = FALSE
  /\ mEmpty = FALSE
  /\ mVectorEmpty = FALSE

\* s.empty() and s.vector.empty()
Empty ==
  /\ ~mDone
  /\ mDone' = TRUE
  /\ mEmpty' = Size3Empty(mSize)
  /\ mVectorEmpty' = Vec3Empty(Size3Vector(mSize))
  /\ UNCHANGED <<notEmpty, mKind, mSize>>

EmptyNext ==
  \/ Empty

InitEmpty == EmptyInit /\ RandomInit /\ PromoteIdle /\ LineIdle /\ RectIdle /\ QueryIdle /\ CircleIdle /\ OrderIdle /\ ArithIdle /\ NormIdle /\ ConvIdle /\ ScalarIdle /\ ListIdle /\ SizeIdle /\ PlaneIdle /\ ProjectIdle /\ LerpIdle /\ TriangleIdle /\ CanonIdle

SpecEmpty == InitEmpty /\ [][EmptyNext]_vars

(***************************************************************************)
(* C30: Size3::empty() is true exactly when width, height and depth are    *)
(* all zero, i.e. it agrees with Vec3::empty() of the underlying vector    *)
(* for every size.                                                         *)
(***************************************************************************)
C30_Size3EmptyIffAllZero ==
  mDone =>
    /\ mEmpty = (mSize.width = 0 /\ mSize.height = 0 /\ mSize.depth = 0)
    /\ mEmpty = mVectorEmpty

=============================================================================
